---- MODULE Spec2Model ----
(***************************************************************************)
(* A model of the concurrency runtime of ALI: the publish/subscribe        *)
(* EventBus of src/ali/core/event_bus.py and the task Scheduler of         *)
(* src/ali/core/scheduler.py.                                              *)
(*                                                                         *)
(* asyncio runs every coroutine on one loop: a coroutine runs without      *)
(* interruption up to its next suspension point, so an action of the model *)
(* is the code between two suspension points.  Time is counted in ticks;   *)
(* a tick passes only when no coroutine is ready to run, and a timer that  *)
(* has reached 0 fires before time passes further (asyncio.wait_for).      *)
(***************************************************************************)
EXTENDS Integers, Sequences, FiniteSets, TLC

(* ---------------------------- bounds ----------------------------------- *)
MaxEvents == 2
MaxHistEvents == 3
MaxSubs == 2
MaxWorkers == 2
MaxInFlight == 2
MaxStamp == 2
MaxLimit == 2
MaxSchedules == 3
MaxRestarts == 2
MaxCost == 2
MaxShutdowns == 2
MaxSize == 3
MaxBatch == 4
MaxEnqueues == 5
MaxRunCalls == 2
MaxOnce == 2

(* ------------------- configuration of the bus under test --------------- *)
max_history == 2
SmallQueue == 1
backpressure_timeout == 1
handler_timeout == 3
SlowTicks == backpressure_timeout + 1

(* ---------------- configuration of the scheduler under test ------------ *)
\* power_budget and every power_cost are floats; the model counts them in a unit
\* small enough for each of them to be a whole number of units, and keeps
\* Precision significant bits where the code keeps the 53 of a double
SmallBudget == 2
\* the clock of the scheduler, time.monotonic(), counts heartbeat intervals' worth
heartbeat_interval == 1
MaxClock == 3

(* ------------- configuration of the intent classifier under test ------- *)
\* _conversation_duration_seconds, in the unit of the clock
conversation_duration == 2
\* the confidence a transcript comes with, in thousandths
LowConfidence == 300
HighConfidence == 900
Precision == 3
\* a budget and costs whose sums do not all fit in Precision bits
LargeBudget == 14
LargeCosts == {3, 4, 7}

WILDCARD == "*"
Keys == {"a", "b", WILDCARD}

\* The handlers that get subscribed, named after what their coroutine does:
\*   "ok", "ok2"  return without waiting
\*   "raise"      raises an Exception without waiting
\*   "slow"       sleeps SlowTicks, then returns
\*   "hang"       never returns by itself; ends when it is cancelled
\*   "zombie"     never returns by itself and ignores cancellation
\*   "repub"      publishes a new event on the bus, waits for that publish, returns
HandlerIds == {"ok", "ok2", "raise", "slow", "hang", "zombie", "repub"}
WorkerIds == 1..MaxWorkers
EventIds == 1..(IF MaxEvents > MaxHistEvents THEN MaxEvents ELSE MaxHistEvents)
NoJob == <<0, 0>>

\* the value None of an optional argument
None == -1

\* The tasks that get scheduled, named after their coroutine factory (schedule
\* takes the name from coro_factory.__name__), that is after what the run action does:
\*   "returner"   returns normally
\*   "raiser"     raises an Exception, every time it is run
\*   "looper"     runs until it is cancelled, and lets the CancelledError through
\*   "stubborn"   runs until it is cancelled, and then raises an Exception
Names == {"returner", "raiser", "looper", "stubborn"}
\* a schedule call creates at most one task, and a restart takes the place of the
\* task that failed
RunIds == 1..MaxSchedules

VARIABLES
    max_in_flight,   \* capacity of the _in_flight semaphore
    worker_count,    \* number of dispatch workers _ensure_workers creates
    queue_maxsize,   \* the maxsize the asyncio.Queue of the bus was made with
    subscribers,     \* _subscribers: event type -> list of handlers
    history,         \* _history: deque(maxlen = max_history) of events
    calls,           \* number of publish calls made so far; call k publishes event k
    published,       \* _published_count
    dropped,         \* _dropped_count
    errors,          \* _error_count
    timeouts,        \* _timeout_count
    last_publish,    \* id of the event whose publish last set _last_publish_latency/_time
    queue,           \* _queue: the attempts handed over and not yet taken by a worker
    slots,           \* free value of the _in_flight semaphore
    workers,         \* the _worker_loop tasks
    pub,             \* the publish calls, indexed by call order
    att,             \* the delivery attempts of each publish call
    ticked,          \* TRUE when time has passed since the last publish call
    spaced,          \* TRUE when time passed between two successive publish calls
    created_at,      \* created_at of the event that publish call k publishes
    replay_call,     \* the replay call in progress
    task_specs,      \* Scheduler._task_specs: every spec scheduled, sorted by priority
    power_budget,    \* Scheduler._power_budget
    now,             \* what time.monotonic() returns
    task_state,      \* Scheduler._task_state: task name -> TaskState
    power_used,      \* Scheduler._power_used
    runs,            \* the asyncio tasks created by _ensure_task that are not done
    executions,      \* per task name, how many times its run action was started
    shutdown_call,   \* the shutdown call in progress, and the number of calls made
    maxsize,         \* PrioritizedQueue._maxsize
    max_batch,       \* PrioritizedQueue._max_batch
    high,            \* PrioritizedQueue._high: the queued items of high priority
    normal,          \* PrioritizedQueue._normal: the queued items of normal priority
    metrics,         \* the counters of the queue, under the names metrics() gives them
    returned,        \* what the last enqueue call returned, "none" before the first
    run_loop,        \* the run() call of the queue: where it is, and its batch
    handled,         \* the items the handler of the queue was invoked on, in order
    evicted,         \* the items enqueue has evicted, in order
    enqueued_at,     \* for the k-th item enqueued, the length of handled at its enqueue
    context_tags,          \* IntentClassifier._context_tags
    last_emotion,          \* IntentClassifier._last_emotion
    last_transcript,       \* IntentClassifier._last_transcript
    conversation_active,   \* IntentClassifier._conversation_active
    conversation_expires_at, \* IntentClassifier._conversation_expires_at
    current_intent,        \* IntentClassifier._current_intent
    current_confidence,    \* IntentClassifier._current_confidence, in thousandths
    emitted          \* the intent.updated events _process_event has published, each
                     \* with the time and the kind of the event it was made for

bus_vars == <<max_in_flight, worker_count, queue_maxsize, subscribers, history, calls,
              published, dropped, errors, timeouts, last_publish, queue, slots, workers, pub, att,
              ticked, spaced>>
replay_vars == <<created_at, replay_call>>
sched_vars == <<power_budget, now, task_specs, task_state, power_used, runs, executions,
               shutdown_call>>
pq_vars == <<maxsize, max_batch, high, normal, metrics, returned, run_loop, handled,
             evicted, enqueued_at>>
intent_vars == <<context_tags, last_emotion, last_transcript, conversation_active,
                 conversation_expires_at, current_intent, current_confidence, emitted>>
others == <<replay_vars, sched_vars, pq_vars, intent_vars>>
vars == <<bus_vars, replay_vars, sched_vars, pq_vars, intent_vars>>

config == <<max_in_flight, worker_count, queue_maxsize>>
hist == <<history, calls>>
counters == <<published, dropped, errors, timeouts>>

(* ---------------------------- helpers ---------------------------------- *)
Min(a, b) == IF a < b THEN a ELSE b
Max(a, b) == IF a > b THEN a ELSE b

Event(e, t) == [event_id |-> e, event_type |-> t]

OffWorker == [pc |-> "off", job |-> NoJob, timer |-> 0, work |-> 0]
IdleWorker == [pc |-> "idle", job |-> NoJob, timer |-> 0, work |-> 0]
NoPub == [st |-> "none", event_type |-> "a", caller |-> 0, waited |-> 0]
NoReplay == [st |-> "none", event_type |-> "a", since |-> None, limit |-> None,
             snapshot |-> <<>>, pos |-> 0, replayed |-> 0, invoked |-> <<>>]

\* a name that is not a key of _task_state
NoState == [status |-> "absent", last_error |-> "None", restarts |-> 0,
            last_heartbeat |-> 0]
\* TaskState()
NewState == [status |-> "pending", last_error |-> "None", restarts |-> 0,
             last_heartbeat |-> now]
\* a slot of the model that holds no task
NoRun == [phase |-> "free", name |-> "returner", power_cost |-> 0, restart |-> FALSE,
          max_restarts |-> 0, outcome |-> "none", must_cancel |-> FALSE,
          listed |-> FALSE, heartbeat_task |-> None]

NumSubs == Len(subscribers["a"]) + Len(subscribers["b"]) + Len(subscribers[WILDCARD])

\* a deque that refuses the new element when it is full
DequeAppendKeepsOldest(d, x, n) ==
    IF Len(d) < n THEN Append(d, x) ELSE d

\* deque(maxlen = n).append(x): the oldest element leaves when the deque is full
DequeAppend(d, x, n) ==
    IF n = 0 THEN <<>>
    ELSE IF Len(d) < n THEN Append(d, x)
    ELSE Append(Tail(d), x)

\* self._history.append(event), at the wrong end
HistoryAppendLeft(e, t) == <<Event(e, t)>> \o SubSeq(history, 1, Min(Len(history), max_history - 1))

\* self._history.append(event)
HistoryAppend(e, t) == DequeAppend(history, Event(e, t), max_history)

\* recent_events(limit): list(self._history)[-limit:]
recent_events(limit) ==
    IF limit <= 0 THEN <<>>
    ELSE SubSeq(history, Max(Len(history) - limit, 0) + 1, Len(history))

\* the handlers of the event's own type only
MatchingHandlersOwnType(t) == subscribers[t]

\* handlers = list(subscribers.get(type, [])); handlers += subscribers.get("*", [])
MatchingHandlers(t) ==
    (IF t \in DOMAIN subscribers THEN subscribers[t] ELSE <<>>) \o subscribers[WILDCARD]

InBody(w) == workers[w].pc \in {"body", "callpub", "pubwait", "zombie"}

Putting(e) == {i \in 1..Len(att[e]) : att[e][i].st = "putting"}

\* no replay call has been made; every event is created at the same instant
ReplayFresh ==
    /\ created_at = [e \in EventIds |-> 1]
    /\ replay_call = NoReplay

\* Scheduler.__init__, but for power_budget
SchedulerInit ==
    /\ task_specs = <<>>
    /\ task_state = [n \in Names |-> NoState]
    /\ power_used = 0
    /\ now = 0
    /\ runs = [r \in RunIds |-> NoRun]
    /\ executions = [n \in Names |-> 0]
    /\ shutdown_call = [st |-> "idle", awaited |-> {}, calls |-> 0]

\* IntentClassifier.__init__
IntentInit ==
    /\ context_tags = <<>>
    /\ last_emotion = "neutral"
    /\ last_transcript = <<>>
    /\ conversation_active = FALSE
    /\ conversation_expires_at = 0
    /\ current_intent = "idle"
    /\ current_confidence = 300
    /\ emitted = <<>>

\* a scheduler whose budget and costs are small whole numbers: every sum is exact
SchedulerFresh == SchedulerInit /\ power_budget = SmallBudget

\* PrioritizedQueue.__init__, but for maxsize and max_batch; run() is not called yet
QueueInit ==
    /\ high = <<>>
    /\ normal = <<>>
    /\ metrics = [enqueued |-> 0, dropped |-> 0, processed |-> 0, processed_high |-> 0,
                  processed_normal |-> 0, max_depth |-> 0]
    /\ returned = "none"
    /\ run_loop = [pc |-> "off", batch |-> <<>>, todo |-> <<>>, since_sleep |-> 0,
                   calls |-> 0]
    /\ handled = <<>>
    /\ evicted = <<>>
    /\ enqueued_at = <<>>

\* a queue that is constructed and left alone
QueueFresh ==
    /\ maxsize = Max(1, MaxSize)
    /\ max_batch = Max(1, MaxBatch)
    /\ QueueInit

\* EventBus.__init__, but for max_in_flight and worker_count
BusInit ==
    /\ subscribers = [k \in Keys |-> <<>>]
    /\ history = <<>>
    /\ calls = 0
    /\ published = 0
    /\ dropped = 0
    /\ errors = 0
    /\ timeouts = 0
    /\ last_publish = 0
    /\ queue = <<>>
    /\ slots = max_in_flight
    /\ workers = [w \in WorkerIds |-> OffWorker]
    /\ pub = [e \in EventIds |-> NoPub]
    /\ att = [e \in EventIds |-> <<>>]
    /\ ticked = FALSE
    /\ spaced = FALSE

Init ==
    /\ max_in_flight \in 1..MaxInFlight
    /\ worker_count \in 1..MaxWorkers
    /\ queue_maxsize = SmallQueue
    /\ BusInit
    /\ ReplayFresh
    /\ SchedulerFresh
    /\ QueueFresh
    /\ IntentInit

(* ---------------------------- subscribe -------------------------------- *)
Subscribe(k, h) ==
    /\ NumSubs < MaxSubs
    /\ subscribers' = [subscribers EXCEPT ![k] = Append(@, h)]
    /\ UNCHANGED <<others, config, hist, counters, last_publish, queue, slots, workers,
                   pub, att, ticked, spaced>>

(* ----------------------------- publish --------------------------------- *)
\* _ensure_workers: the worker tasks are created once, by the first publish that
\* has a handler
EnsureWorkers(ws) ==
    IF \E w \in WorkerIds : ws[w].pc # "off" THEN ws
    ELSE [w \in WorkerIds |-> IF w <= worker_count THEN IdleWorker ELSE ws[w]]

\* asyncio.Queue.full(): a queue made with maxsize <= 0 is never full
QueueFull == queue_maxsize > 0 /\ Len(queue) >= queue_maxsize

\* of n put calls made one after the other, the number that find the queue not full
Room(n) == IF queue_maxsize <= 0 THEN n ELSE Min(n, queue_maxsize - Len(queue))

\* The attempts of one publish call: gather starts one _enqueue_handler per handler,
\* in order; each puts its item at once while the queue has room, the others wait
\* for room with the backpressure timer running.
NewAttempts(hs, room) ==
    [i \in 1..Len(hs) |->
        [h |-> hs[i],
         st |-> IF i <= room THEN "queued" ELSE "putting",
         timer |-> IF i <= room THEN 0 ELSE backpressure_timeout,
         invoked |-> 0, drops |-> 0, res |-> "none"]]

\* publish without the early return: with no handler it still creates the workers
\* and records its latency
DoPublishWithoutEarlyReturn(t, caller, ws) ==
    LET e == calls + 1
        hs == MatchingHandlers(t)
        room == Room(Len(hs))
    IN  /\ calls' = calls + 1
        /\ history' = HistoryAppend(e, t)
        /\ published' = published + 1
        /\ pub' = [pub EXCEPT ![e] =
                      [st |-> IF hs = <<>> THEN "returned" ELSE "gather",
                       event_type |-> t, caller |-> caller, waited |-> 0]]
        /\ att' = [att EXCEPT ![e] = NewAttempts(hs, room)]
        /\ queue' = queue \o [i \in 1..room |-> <<e, i>>]
        /\ workers' = EnsureWorkers(ws)
        /\ last_publish' = IF hs = <<>> THEN e ELSE last_publish
        /\ ticked' = FALSE
        /\ spaced' = (spaced \/ ticked)
        /\ UNCHANGED <<others, config, subscribers, dropped, errors, timeouts, slots>>

\* publish that extends the registered list of the event type in place, for want of
\* the copy `list(...)`
DoPublishExtendsRegistry(t, caller, ws) ==
    LET e == calls + 1
        hs == MatchingHandlers(t)
        room == Room(Len(hs))
    IN  /\ calls' = calls + 1
        /\ subscribers' = [subscribers EXCEPT ![t] = hs]
        /\ history' = HistoryAppend(e, t)
        /\ published' = published + 1
        /\ pub' = [pub EXCEPT ![e] =
                      [st |-> IF hs = <<>> THEN "returned" ELSE "gather",
                       event_type |-> t, caller |-> caller, waited |-> 0]]
        /\ att' = [att EXCEPT ![e] = NewAttempts(hs, room)]
        /\ queue' = queue \o [i \in 1..room |-> <<e, i>>]
        /\ workers' = IF hs # <<>> THEN EnsureWorkers(ws)
                      ELSE IF caller = 0 THEN ws
                      ELSE [ws EXCEPT ![caller].pc = "body", ![caller].work = 0]
        /\ ticked' = FALSE
        /\ spaced' = (spaced \/ ticked)
        /\ UNCHANGED <<others, config, dropped, errors, timeouts, last_publish, slots>>

\* publish(event) up to its first suspension point (the gather), called by `caller`
\* (0: a coroutine outside the bus, w: the handler running in worker w); ws is the
\* state of the workers at the call.
DoPublish(t, caller, ws) ==
    LET e == calls + 1
        hs == MatchingHandlers(t)
        room == Room(Len(hs))
    IN  /\ calls' = calls + 1
        /\ history' = HistoryAppend(e, t)
        /\ published' = published + 1
        /\ pub' = [pub EXCEPT ![e] =
                      [st |-> IF hs = <<>> THEN "returned" ELSE "gather",
                       event_type |-> t, caller |-> caller, waited |-> 0]]
        /\ att' = [att EXCEPT ![e] = NewAttempts(hs, room)]
        /\ queue' = queue \o [i \in 1..room |-> <<e, i>>]
        /\ workers' = IF hs # <<>> THEN EnsureWorkers(ws)
                      ELSE IF caller = 0 THEN ws
                      ELSE [ws EXCEPT ![caller].pc = "body", ![caller].work = 0]
        /\ ticked' = FALSE
        /\ spaced' = (spaced \/ ticked)
        /\ UNCHANGED <<others, config, subscribers, dropped, errors, timeouts, last_publish,
                       slots>>

Publish(t) == DoPublish(t, 0, workers)

\* publish that does not wait for its gather
PublishReturnsAtOnce(e) ==
    /\ pub[e].st = "gather"
    /\ pub' = [pub EXCEPT ![e].st = "returned"]
    /\ last_publish' = e
    /\ workers' = IF pub[e].caller = 0 THEN workers
                  ELSE [workers EXCEPT ![pub[e].caller].pc = "body",
                                       ![pub[e].caller].work = 0]
    /\ UNCHANGED <<others, config, subscribers, hist, counters, queue, slots, att, ticked, spaced>>

\* the rest of publish, after the gather: every _enqueue_handler has returned
PublishReturn(e) ==
    /\ pub[e].st = "gather"
    /\ Putting(e) = {}
    /\ pub' = [pub EXCEPT ![e].st = "returned"]
    /\ last_publish' = e
    /\ workers' = IF pub[e].caller = 0 THEN workers
                  ELSE [workers EXCEPT ![pub[e].caller].pc = "body",
                                       ![pub[e].caller].work = 0]
    /\ UNCHANGED <<others, config, subscribers, hist, counters, queue, slots, att, ticked, spaced>>

(* ------------------------- _enqueue_handler ---------------------------- *)
\* queue.put completes: the queue has room again
Put(e, i) ==
    /\ i \in Putting(e)
    /\ ~QueueFull
    /\ queue' = Append(queue, <<e, i>>)
    /\ att' = [att EXCEPT ![e][i].st = "queued", ![e][i].timer = 0]
    /\ UNCHANGED <<others, config, subscribers, hist, counters, last_publish, slots,
                   workers, pub, ticked, spaced>>

\* queue.put awaited without wait_for: it never times out
PutWithoutTimeout(e, i) ==
    /\ FALSE
    /\ UNCHANGED vars

\* wait_for(queue.put) times out: the attempt is dropped
PutTimeout(e, i) ==
    /\ i \in Putting(e)
    /\ att[e][i].timer = 0
    /\ dropped' = dropped + 1
    /\ att' = [att EXCEPT ![e][i].st = "dropped", ![e][i].drops = @ + 1]
    /\ UNCHANGED <<others, config, subscribers, hist, published, errors, timeouts,
                   last_publish, queue, slots, workers, pub, ticked, spaced>>

(* --------------------- _worker_loop / _invoke_handler ------------------ *)
\* publish calls still to come from handlers that have started and not yet called
Reserved == Cardinality({w \in WorkerIds : workers[w].pc = "callpub"})

\* The handler coroutine of attempt `job` starts in worker w, with the
\* handler_timeout timer.  work is the time the handler still sleeps (-1: for ever).
\* A "repub" handler publishes only while the model has an event left to publish.
StartedWorker(w, job) ==
    LET h == att[job[1]][job[2]].h
        repub == h = "repub" /\ calls + Reserved < MaxEvents
    IN  [pc |-> IF repub THEN "callpub" ELSE "body",
         job |-> job,
         timer |-> handler_timeout,
         work |-> IF h \in {"ok", "ok2", "raise"} \/ (h = "repub" /\ ~repub) THEN 0
                  ELSE IF h = "slow" THEN SlowTicks
                  ELSE -1]

HandlerOf(w) == att[workers[w].job[1]][workers[w].job[2]].h

\* queue.get() returns an item and the semaphore is free: acquire and invoke
WorkerGetInvoke(w) ==
    /\ workers[w].pc = "idle"
    /\ queue # <<>>
    /\ slots > 0
    /\ LET job == Head(queue) IN
        /\ queue' = Tail(queue)
        /\ slots' = slots - 1
        /\ workers' = [workers EXCEPT ![w] = StartedWorker(w, job)]
        /\ att' = [att EXCEPT ![job[1]][job[2]].st = "taken",
                              ![job[1]][job[2]].invoked = @ + 1]
    /\ UNCHANGED <<others, config, subscribers, hist, counters, last_publish, pub, ticked, spaced>>

\* the wait for a slot bounded by handler_timeout instead of backpressure_timeout
WorkerGetWaitsTooLong(w) ==
    /\ workers[w].pc = "idle"
    /\ queue # <<>>
    /\ slots = 0
    /\ LET job == Head(queue) IN
        /\ queue' = Tail(queue)
        /\ workers' = [workers EXCEPT ![w] =
                          [pc |-> "acquire", job |-> job,
                           timer |-> handler_timeout, work |-> 0]]
        /\ att' = [att EXCEPT ![job[1]][job[2]].st = "taken"]
    /\ UNCHANGED <<others, config, subscribers, hist, counters, last_publish, slots, pub,
                   ticked, spaced>>

\* queue.get() returns an item and the semaphore is exhausted: wait for a slot
WorkerGetWait(w) ==
    /\ workers[w].pc = "idle"
    /\ queue # <<>>
    /\ slots = 0
    /\ LET job == Head(queue) IN
        /\ queue' = Tail(queue)
        /\ workers' = [workers EXCEPT ![w] =
                          [pc |-> "acquire", job |-> job,
                           timer |-> backpressure_timeout, work |-> 0]]
        /\ att' = [att EXCEPT ![job[1]][job[2]].st = "taken"]
    /\ UNCHANGED <<others, config, subscribers, hist, counters, last_publish, slots, pub,
                   ticked, spaced>>

\* a slot is released while the worker waits for it: acquire and invoke
Acquire(w) ==
    /\ workers[w].pc = "acquire"
    /\ slots > 0
    /\ LET job == workers[w].job IN
        /\ slots' = slots - 1
        /\ workers' = [workers EXCEPT ![w] = StartedWorker(w, job)]
        /\ att' = [att EXCEPT ![job[1]][job[2]].invoked = @ + 1]
    /\ UNCHANGED <<others, config, subscribers, hist, counters, last_publish, queue, pub,
                   ticked, spaced>>

\* the drop is counted and the handler is invoked all the same
AcquireTimeoutFallsThrough(w) ==
    /\ workers[w].pc = "acquire"
    /\ workers[w].timer = 0
    /\ LET job == workers[w].job IN
        /\ dropped' = dropped + 1
        /\ att' = [att EXCEPT ![job[1]][job[2]].drops = @ + 1,
                              ![job[1]][job[2]].invoked = @ + 1]
        /\ workers' = [workers EXCEPT ![w] = StartedWorker(w, job)]
    /\ UNCHANGED <<others, config, subscribers, hist, published, errors, timeouts,
                   last_publish, queue, slots, pub, ticked, spaced>>

\* the drop path releasing a slot it never acquired
AcquireTimeoutReleases(w) ==
    /\ workers[w].pc = "acquire"
    /\ workers[w].timer = 0
    /\ LET job == workers[w].job IN
        /\ dropped' = dropped + 1
        /\ slots' = slots + 1
        /\ att' = [att EXCEPT ![job[1]][job[2]].st = "dropped",
                              ![job[1]][job[2]].drops = @ + 1]
        /\ workers' = [workers EXCEPT ![w] = IdleWorker]
    /\ UNCHANGED <<others, config, subscribers, hist, published, errors, timeouts,
                   last_publish, queue, pub, ticked, spaced>>

\* wait_for(_in_flight.acquire()) times out: the attempt is dropped, no slot is held
AcquireTimeout(w) ==
    /\ workers[w].pc = "acquire"
    /\ workers[w].timer = 0
    /\ LET job == workers[w].job IN
        /\ dropped' = dropped + 1
        /\ att' = [att EXCEPT ![job[1]][job[2]].st = "dropped",
                              ![job[1]][job[2]].drops = @ + 1]
        /\ workers' = [workers EXCEPT ![w] = IdleWorker]
    /\ UNCHANGED <<others, config, subscribers, hist, published, errors, timeouts,
                   last_publish, queue, slots, pub, ticked, spaced>>

\* the handler publishes from inside the worker
HandlerPublish(w, t) ==
    /\ workers[w].pc = "callpub"
    /\ DoPublish(t, w, [workers EXCEPT ![w].pc = "pubwait"])

\* the slot released twice, in the except clause and again in the finally
FinishReleasesTwice(w, result) ==
    LET job == workers[w].job IN
        /\ slots' = slots + 2
        /\ workers' = [workers EXCEPT ![w] = IdleWorker]
        /\ att' = [att EXCEPT ![job[1]][job[2]].st = "finished",
                              ![job[1]][job[2]].res = result]

\* what leaving _invoke_handler after the handler call does: the finally releases
\* the slot, the worker marks the item done and goes back to queue.get()
Finish(w, result) ==
    LET job == workers[w].job IN
        /\ slots' = slots + 1
        /\ workers' = [workers EXCEPT ![w] = IdleWorker]
        /\ att' = [att EXCEPT ![job[1]][job[2]].st = "finished",
                              ![job[1]][job[2]].res = result]

\* a worker that handles one item and ends, for want of the `while True`
HandlerReturnEndsWorker(w) ==
    /\ workers[w].pc = "body"
    /\ workers[w].work = 0
    /\ HandlerOf(w) # "raise"
    /\ slots' = slots + 1
    /\ workers' = [workers EXCEPT ![w] = [IdleWorker EXCEPT !.pc = "ended"]]
    /\ att' = [att EXCEPT ![workers[w].job[1]][workers[w].job[2]].st = "finished",
                          ![workers[w].job[1]][workers[w].job[2]].res = "completed"]
    /\ UNCHANGED <<others, config, subscribers, hist, counters, last_publish, queue, pub,
                   ticked, spaced>>

\* the handler returns
HandlerReturn(w) ==
    /\ workers[w].pc = "body"
    /\ workers[w].work = 0
    /\ HandlerOf(w) # "raise"
    /\ Finish(w, "completed")
    /\ UNCHANGED <<others, config, subscribers, hist, counters, last_publish, queue, pub,
                   ticked, spaced>>

\* the exception leaves _invoke_handler and ends the worker task
HandlerRaiseEndsWorker(w) ==
    /\ workers[w].pc = "body"
    /\ workers[w].work = 0
    /\ HandlerOf(w) = "raise"
    /\ errors' = errors + 1
    /\ slots' = slots + 1
    /\ workers' = [workers EXCEPT ![w] = [IdleWorker EXCEPT !.pc = "ended"]]
    /\ att' = [att EXCEPT ![workers[w].job[1]][workers[w].job[2]].st = "finished",
                          ![workers[w].job[1]][workers[w].job[2]].res = "raised"]
    /\ UNCHANGED <<others, config, subscribers, hist, published, dropped, timeouts,
                   last_publish, queue, pub, ticked, spaced>>

\* the handler raises an Exception
HandlerRaise(w) ==
    /\ workers[w].pc = "body"
    /\ workers[w].work = 0
    /\ HandlerOf(w) = "raise"
    /\ errors' = errors + 1
    /\ Finish(w, "raised")
    /\ UNCHANGED <<others, config, subscribers, hist, published, dropped, timeouts,
                   last_publish, queue, pub, ticked, spaced>>

\* the timeout is counted and the slot released while the handler goes on running
HandlerTimeoutAbandons(w) ==
    /\ workers[w].pc = "body"
    /\ workers[w].timer = 0
    /\ HandlerOf(w) # "zombie"
    /\ timeouts' = timeouts + 1
    /\ slots' = slots + 1
    /\ workers' = [workers EXCEPT ![w].pc = "zombie"]
    /\ UNCHANGED <<others, config, subscribers, hist, published, dropped, errors,
                   last_publish, queue, pub, att, ticked, spaced>>

\* wait_for(handler(event)) reaches handler_timeout: it cancels the handler and
\* waits until the handler has ended.  The "hang" handler lets the CancelledError
\* through: wait_for raises TimeoutError, the timeout is counted and the slot is
\* released.
HandlerTimeout(w) ==
    /\ workers[w].pc = "body"
    /\ workers[w].timer = 0
    /\ HandlerOf(w) # "zombie"
    /\ timeouts' = timeouts + 1
    /\ Finish(w, "cancelled")
    /\ UNCHANGED <<others, config, subscribers, hist, published, dropped, errors,
                   last_publish, queue, pub, ticked, spaced>>

\* The "zombie" handler catches the CancelledError and goes on waiting: wait_for
\* does not return, the worker stays in _invoke_handler and keeps its slot.
HandlerIgnoresCancel(w) ==
    /\ workers[w].pc = "body"
    /\ workers[w].timer = 0
    /\ HandlerOf(w) = "zombie"
    /\ workers' = [workers EXCEPT ![w].pc = "zombie"]
    /\ UNCHANGED <<others, config, subscribers, hist, counters, last_publish, queue, slots,
                   pub, att, ticked, spaced>>

(* ------------------------------- time ---------------------------------- *)
\* some coroutine is ready to run: the loop runs it before any time passes
Ready ==
    \/ \E e \in EventIds :
          \/ pub[e].st = "gather" /\ Putting(e) = {}
          \/ \E i \in Putting(e) : ~QueueFull \/ att[e][i].timer = 0
    \/ \E w \in WorkerIds :
          \/ workers[w].pc = "idle" /\ queue # <<>>
          \/ workers[w].pc = "acquire" /\ (slots > 0 \/ workers[w].timer = 0)
          \/ workers[w].pc = "callpub"
          \/ workers[w].pc = "body" /\ (workers[w].work = 0 \/ workers[w].timer = 0)

\* some coroutine waits on a timer
Waiting ==
    \/ \E e \in EventIds : Putting(e) # {}
    \/ \E w \in WorkerIds : workers[w].pc \in {"acquire", "body", "pubwait"}

Tick ==
    /\ ~Ready
    /\ Waiting
    /\ att' = [e \in EventIds |->
                 [i \in 1..Len(att[e]) |->
                     IF att[e][i].st = "putting"
                     THEN [att[e][i] EXCEPT !.timer = @ - 1]
                     ELSE att[e][i]]]
    /\ workers' = [w \in WorkerIds |->
                     IF workers[w].pc \in {"acquire", "body", "pubwait"}
                     THEN [workers[w] EXCEPT !.timer = @ - 1,
                                             !.work = IF @ > 0 THEN @ - 1 ELSE @]
                     ELSE workers[w]]
    /\ pub' = [e \in EventIds |->
                 IF pub[e].st = "gather" THEN [pub[e] EXCEPT !.waited = @ + 1]
                 ELSE pub[e]]
    /\ ticked' = TRUE
    /\ UNCHANGED <<others, config, subscribers, hist, counters, last_publish, queue, slots,
                   spaced>>

(* ----------------------------- scheduler ------------------------------- *)
\* the gap between two neighbouring floats at n: 1 while n takes at most Precision
\* bits, and twice as much for each bit more
RECURSIVE Ulp(_)
Ulp(n) == IF n < 2 ^ Precision THEN 1 ELSE 2 * Ulp(n \div 2)

\* the float nearest to n >= 0, the one with the even significand when n is halfway
Round(n) ==
    LET u == Ulp(n)
        lo == (n \div u) * u
    IN  IF n = lo THEN n
        ELSE IF 2 * (n - lo) < u THEN lo
        ELSE IF 2 * (n - lo) > u THEN lo + u
        ELSE IF (lo \div u) % 2 = 0 THEN lo
        ELSE lo + u

\* a + b and a - b of two floats as Python computes them; a difference below 0 has
\* the magnitude rounded
FAdd(a, b) == Round(a + b)
FSub(a, b) == IF a >= b THEN Round(a - b) ELSE 0 - Round(b - a)

TaskSpec(n, prio, cost, restart, max) ==
    [name |-> n, priority |-> prio, power_cost |-> cost, restart |-> restart,
     max_restarts |-> max]

\* _task_specs.append(spec); _task_specs.sort(key = priority): the sort is stable,
\* the new spec goes behind the specs of the same priority
InsertByPriority(specs, spec) ==
    LET k == Cardinality({i \in 1..Len(specs) : specs[i].priority <= spec.priority})
    IN  SubSeq(specs, 1, k) \o <<spec>> \o SubSeq(specs, k + 1, Len(specs))

\* asyncio.create_task(self._run_task(spec)), appended to _tasks
NewRun(spec) ==
    [phase |-> "starting", name |-> spec.name, power_cost |-> spec.power_cost,
     restart |-> spec.restart, max_restarts |-> spec.max_restarts,
     outcome |-> "none", must_cancel |-> FALSE, listed |-> TRUE,
     heartbeat_task |-> None]

FreeRun == CHOOSE r \in RunIds : runs[r].phase = "free" /\
                                 \A q \in RunIds : runs[q].phase = "free" => r <= q

\* _ensure_task that admits the task whatever the budget
EnsureTaskIgnoresBudget(spec, ts, pu, rs, slot) ==
    LET state == IF ts[spec.name].status = "absent" THEN NewState ELSE ts[spec.name]
    IN  IF state.status = "running"
        THEN [task_state |-> [ts EXCEPT ![spec.name] = state], power_used |-> pu,
              runs |-> rs]
        ELSE [task_state |-> [ts EXCEPT ![spec.name] = [state EXCEPT !.status = "running"]],
              power_used |-> FAdd(pu, spec.power_cost),
              runs |-> [rs EXCEPT ![slot] = NewRun(spec)]]

\* _ensure_task that marks the task it cannot admit as failed
EnsureTaskFailsOverBudget(spec, ts, pu, rs, slot) ==
    LET state == IF ts[spec.name].status = "absent" THEN NewState ELSE ts[spec.name]
    IN  IF state.status = "running"
        THEN [task_state |-> [ts EXCEPT ![spec.name] = state], power_used |-> pu,
              runs |-> rs]
        ELSE IF FAdd(pu, spec.power_cost) > power_budget
        THEN [task_state |-> [ts EXCEPT ![spec.name] = [state EXCEPT !.status = "failed"]],
              power_used |-> pu, runs |-> rs]
        ELSE [task_state |-> [ts EXCEPT ![spec.name] = [state EXCEPT !.status = "running"]],
              power_used |-> FAdd(pu, spec.power_cost),
              runs |-> [rs EXCEPT ![slot] = NewRun(spec)]]

\* _ensure_task(spec) on the task table ts, the power in use pu and the tasks rs;
\* slot is where the model keeps the task it creates
EnsureTask(spec, ts, pu, rs, slot) ==
    LET state == IF ts[spec.name].status = "absent" THEN NewState ELSE ts[spec.name]
    IN  IF state.status = "running"
        THEN [task_state |-> [ts EXCEPT ![spec.name] = state], power_used |-> pu,
              runs |-> rs]
        ELSE IF FAdd(pu, spec.power_cost) > power_budget
        THEN [task_state |-> [ts EXCEPT ![spec.name] = [state EXCEPT !.status = "pending"]],
              power_used |-> pu, runs |-> rs]
        ELSE [task_state |-> [ts EXCEPT ![spec.name] = [state EXCEPT !.status = "running"]],
              power_used |-> FAdd(pu, spec.power_cost),
              runs |-> [rs EXCEPT ![slot] = NewRun(spec)]]

\* schedule(coro_factory, name, priority, power_cost, restart, max_restarts)
Schedule(n, prio, cost, restart, max) ==
    LET spec == TaskSpec(n, prio, cost, restart, max)
        new == EnsureTask(spec, task_state, power_used, runs, FreeRun)
    IN  /\ Len(task_specs) < MaxSchedules
        /\ task_specs' = InsertByPriority(task_specs, spec)
        /\ task_state' = new.task_state
        /\ power_used' = new.power_used
        /\ runs' = new.runs
        /\ UNCHANGED <<intent_vars, pq_vars, bus_vars, replay_vars, power_budget, now,
                       executions, shutdown_call>>

(* ------------------------------ _run_task ------------------------------ *)
\* The TaskState object that the task in slot r works on is the entry of its name
\* as long as shutdown has not cleared the table since the task was created; after
\* that the task holds an object that is in the table no more.
HoldsEntry(r) == runs[r].listed

\* the task sets last_heartbeat, creates the heartbeat task, which will wake after
\* heartbeat_interval, and gets to `await spec.coro_factory()`: the run action starts
RunStart(r) ==
    /\ runs[r].phase = "starting"
    /\ ~runs[r].must_cancel
    /\ runs' = [runs EXCEPT ![r].phase = "executing",
                            ![r].heartbeat_task = now + heartbeat_interval]
    /\ task_state' = IF HoldsEntry(r)
                      THEN [task_state EXCEPT ![runs[r].name].last_heartbeat = now]
                      ELSE task_state
    /\ executions' = [executions EXCEPT ![runs[r].name] = @ + 1]
    /\ UNCHANGED <<intent_vars, pq_vars, bus_vars, replay_vars, power_budget, now,
                   task_specs, power_used, shutdown_call>>

\* _heartbeat_loop: the sleep of the heartbeat task of slot r is over; it sets
\* last_heartbeat and sleeps again
Heartbeat(r) ==
    /\ runs[r].heartbeat_task # None
    /\ runs[r].heartbeat_task <= now
    /\ runs' = [runs EXCEPT ![r].heartbeat_task = now + heartbeat_interval]
    /\ task_state' = IF HoldsEntry(r)
                      THEN [task_state EXCEPT ![runs[r].name].last_heartbeat = now]
                      ELSE task_state
    /\ UNCHANGED <<intent_vars, pq_vars, bus_vars, replay_vars, power_budget, now,
                   task_specs, power_used, executions, shutdown_call>>

\* a heartbeat task whose sleep is over has not run yet
HeartbeatDue == \E r \in RunIds : runs[r].heartbeat_task # None /\ runs[r].heartbeat_task <= now

\* time passes, once every task that is ready has run
Pass ==
    /\ now < MaxClock
    /\ ~HeartbeatDue
    /\ now' = now + 1
    /\ UNCHANGED <<intent_vars,
                   pq_vars, bus_vars, replay_vars, power_budget, task_specs, task_state,
                   power_used, runs, executions, shutdown_call>>

\* _run_task without the finally clause: the heartbeat task is left running when
\* the run action raises
RunRaiseWithoutFinally(r) ==
    /\ runs[r].phase = "executing"
    /\ ~runs[r].must_cancel
    /\ runs[r].name = "raiser"
    /\ runs' = [runs EXCEPT ![r].phase = "closing", ![r].outcome = "raised"]
    /\ UNCHANGED <<intent_vars, pq_vars, bus_vars, replay_vars, power_budget, now,
                   task_specs, task_state, power_used,
                   executions, shutdown_call>>

\* the task is cancelled before its run action has started
RunCancelledEarly(r) ==
    /\ runs[r].phase = "starting"
    /\ runs[r].must_cancel
    /\ runs' = [runs EXCEPT ![r].phase = "ended", ![r].outcome = "cancelled",
                            ![r].must_cancel = FALSE]
    /\ UNCHANGED <<intent_vars, pq_vars, bus_vars, replay_vars, power_budget, now,
                   task_specs, task_state, power_used,
                   executions, shutdown_call>>

\* the run action returns; the finally clause cancels the heartbeat task and
\* waits for it
RunReturn(r) ==
    /\ runs[r].phase = "executing"
    /\ ~runs[r].must_cancel
    /\ runs[r].name = "returner"
    /\ runs' = [runs EXCEPT ![r].phase = "closing", ![r].outcome = "returned",
                            ![r].heartbeat_task = None]
    /\ UNCHANGED <<intent_vars, pq_vars, bus_vars, replay_vars, power_budget, now,
                   task_specs, task_state, power_used,
                   executions, shutdown_call>>

\* the run action raises an Exception; the finally clause cancels the heartbeat
\* task and waits for it
RunRaise(r) ==
    /\ runs[r].phase = "executing"
    /\ ~runs[r].must_cancel
    /\ runs[r].name = "raiser"
    /\ runs' = [runs EXCEPT ![r].phase = "closing", ![r].outcome = "raised",
                            ![r].heartbeat_task = None]
    /\ UNCHANGED <<intent_vars, pq_vars, bus_vars, replay_vars, power_budget, now,
                   task_specs, task_state, power_used,
                   executions, shutdown_call>>

\* the CancelledError reaches the run action: it goes through, but for the
\* "stubborn" action, which raises an Exception instead
RunCancelled(r) ==
    /\ runs[r].phase = "executing"
    /\ runs[r].must_cancel
    /\ runs' = [runs EXCEPT ![r].phase = "closing",
                            ![r].outcome = IF runs[r].name = "stubborn" THEN "raised"
                                           ELSE "cancelled",
                            ![r].must_cancel = FALSE,
                            ![r].heartbeat_task = None]
    /\ UNCHANGED <<intent_vars, pq_vars, bus_vars, replay_vars, power_budget, now,
                   task_specs, task_state, power_used,
                   executions, shutdown_call>>

\* the heartbeat task has ended: the task ends the way its run action did.  A
\* cancellation of the task that arrives during this wait is suppressed.
RunClose(r) ==
    /\ runs[r].phase = "closing"
    /\ runs' = [runs EXCEPT ![r].phase = "ended", ![r].must_cancel = FALSE]
    /\ UNCHANGED <<intent_vars, pq_vars, bus_vars, replay_vars, power_budget, now,
                   task_specs, task_state, power_used,
                   executions, shutdown_call>>

(* ----------------------------- _on_task_done --------------------------- *)
\* _on_task_done that hands the budget it releases to a pending task
OnTaskDoneAdmitsPending(r) ==
    LET run == runs[r]
        waiting == {n \in Names : task_state[n].status = "pending"}
    IN  /\ run.phase = "ended"
        /\ waiting # {}
        /\ LET n == CHOOSE w \in waiting : TRUE
           IN  /\ task_state' = [task_state EXCEPT ![n].status = "running"]
               /\ runs' = [runs EXCEPT ![r] = NewRun(TaskSpec(n, 0, run.power_cost,
                                                             FALSE, 0))]
        /\ shutdown_call' = [shutdown_call EXCEPT !.awaited = @ \ {r}]
        /\ UNCHANGED <<intent_vars, pq_vars, bus_vars, replay_vars, power_budget, now,
                       task_specs, power_used, executions>>

\* _on_task_done that marks every task of the table failed when one fails
OnTaskDoneFailsEveryTask(r) ==
    LET run == runs[r]
    IN  /\ run.phase = "ended"
        /\ run.outcome = "raised"
        /\ shutdown_call' = [shutdown_call EXCEPT !.awaited = @ \ {r}]
        /\ runs' = [runs EXCEPT ![r] = NoRun]
        /\ power_used' = Max(FSub(power_used, run.power_cost), 0)
        /\ task_state' = [n \in Names |->
                             IF task_state[n].status = "absent" THEN task_state[n]
                             ELSE [task_state[n] EXCEPT !.status = "failed",
                                                        !.last_error = "error"]]
        /\ UNCHANGED <<intent_vars, pq_vars, bus_vars, replay_vars, power_budget, now,
                       task_specs, executions>>

\* the restart test with <= for <
MayRestartOnceMore(run, state) ==
    run.outcome = "raised" /\ run.restart /\ state.restarts <= run.max_restarts

\* the restart test without `exc and`
MayRestartWithoutError(run, state) ==
    run.restart /\ state.restarts < run.max_restarts

\* exc and spec.restart and state.restarts < spec.max_restarts
MayRestart(run, state) ==
    run.outcome = "raised" /\ run.restart /\ state.restarts < run.max_restarts

\* The done callback of task r, and after it the done callback that a gather of
\* shutdown has put on the task.  With no entry for the name in _task_state the
\* first statement raises KeyError and the callback ends there.
OnTaskDone(r) ==
    LET run == runs[r]
        n == run.name
        spec == TaskSpec(n, 0, run.power_cost, run.restart, run.max_restarts)
        released == Max(FSub(power_used, run.power_cost), 0)
        failed == IF run.outcome = "raised"
                  THEN [task_state EXCEPT ![n].last_error = "error",
                                          ![n].status = "failed"]
                  ELSE task_state
        again == EnsureTask(spec, [failed EXCEPT ![n].restarts = @ + 1], released,
                            [runs EXCEPT ![r] = NoRun], r)
    IN  /\ run.phase = "ended"
        /\ shutdown_call' = [shutdown_call EXCEPT !.awaited = @ \ {r}]
        /\ IF task_state[n].status = "absent"
           THEN /\ runs' = [runs EXCEPT ![r] = NoRun]
                /\ UNCHANGED <<task_state, power_used>>
           ELSE IF run.outcome = "cancelled"
           THEN /\ runs' = [runs EXCEPT ![r] = NoRun]
                /\ power_used' = released
                /\ task_state' = [task_state EXCEPT ![n].status = "cancelled"]
           ELSE IF MayRestart(run, task_state[n])
           THEN /\ runs' = again.runs
                /\ power_used' = again.power_used
                /\ task_state' = again.task_state
           ELSE /\ runs' = [runs EXCEPT ![r] = NoRun]
                /\ power_used' = released
                /\ task_state' = failed
        /\ UNCHANGED <<intent_vars, pq_vars, bus_vars, replay_vars, power_budget, now,
                       task_specs, executions>>

(* ------------------------------ shutdown ------------------------------- *)
\* shutdown() that cancels every task alive, in _tasks or not
ShutdownCallCancelsEveryTask ==
    /\ shutdown_call.st = "idle"
    /\ shutdown_call.calls < MaxShutdowns
    /\ runs' = [r \in RunIds |->
                   IF runs[r].phase \in {"starting", "executing", "closing"}
                   THEN [runs[r] EXCEPT !.must_cancel = TRUE]
                   ELSE runs[r]]
    /\ shutdown_call' = [st |-> "waiting",
                         awaited |-> {r \in RunIds : runs[r].listed},
                         calls |-> shutdown_call.calls + 1]
    /\ UNCHANGED <<intent_vars, pq_vars, bus_vars, replay_vars, power_budget, now,
                   task_specs, task_state, power_used, executions>>

\* shutdown() up to its await: every task of _tasks that is not done is cancelled,
\* and the gather waits for the tasks of _tasks
ShutdownCall ==
    /\ shutdown_call.st = "idle"
    /\ shutdown_call.calls < MaxShutdowns
    /\ runs' = [r \in RunIds |->
                   IF runs[r].listed /\ runs[r].phase \in {"starting", "executing", "closing"}
                   THEN [runs[r] EXCEPT !.must_cancel = TRUE]
                   ELSE runs[r]]
    /\ shutdown_call' = [st |-> "waiting",
                         awaited |-> {r \in RunIds : runs[r].listed},
                         calls |-> shutdown_call.calls + 1]
    /\ UNCHANGED <<intent_vars, pq_vars, bus_vars, replay_vars, power_budget, now,
                   task_specs, task_state, power_used, executions>>

\* the gather is complete, every task it waited for is done: the rest of shutdown
ShutdownReturn ==
    /\ shutdown_call.st = "waiting"
    /\ shutdown_call.awaited = {}
    /\ shutdown_call' = [shutdown_call EXCEPT !.st = "idle"]
    /\ runs' = [r \in RunIds |-> [runs[r] EXCEPT !.listed = FALSE]]
    /\ task_state' = [n \in Names |-> NoState]
    /\ power_used' = 0
    /\ UNCHANGED <<intent_vars,
                   pq_vars, bus_vars, replay_vars, power_budget, now, task_specs, executions>>

(* ------------------------------ replay --------------------------------- *)
\* the truth value Python gives an optional int: None and 0 are false
Truthy(x) == x # None /\ x # 0

\* the two `continue` tests of the loop of replay, negated; a datetime is always true
ReplayMatches(ev, t, since) ==
    /\ ~(t # WILDCARD /\ ev.event_type # t)
    /\ ~(since # None /\ created_at[ev.event_id] < since)

\* the index of the first event at or after `from` that the loop does not skip, or 0
NextMatch(snap, from, t, since) ==
    LET is == {i \in from..Len(snap) : ReplayMatches(snap[i], t, since)}
    IN  IF is = {} THEN 0 ELSE CHOOSE i \in is : \A j \in is : i <= j

\* the loop of replay from index `from` up to its next suspension point: it calls
\* the handler on the next event it does not skip, or runs off the end and returns
ReplayAdvance(rc, from) ==
    LET i == NextMatch(rc.snapshot, from, rc.event_type, rc.since)
    IN  IF i = 0 THEN [rc EXCEPT !.st = "returned"]
        ELSE [rc EXCEPT !.st = "handler", !.pos = i,
                        !.invoked = Append(@, rc.snapshot[i].event_id)]

\* replay(event_type, handler, since, limit) up to its first await
ReplayCall(t, since, limit) ==
    /\ replay_call.st = "none"
    /\ replay_call' = ReplayAdvance([NoReplay EXCEPT !.event_type = t, !.since = since,
                                                     !.limit = limit,
                                                     !.snapshot = history], 1)
    /\ UNCHANGED <<intent_vars, pq_vars, bus_vars, created_at, sched_vars>>

\* the handler returns: replayed += 1; if limit and replayed >= limit: break
ReplayHandlerReturn ==
    /\ replay_call.st = "handler"
    /\ LET rc == [replay_call EXCEPT !.replayed = @ + 1]
       IN  replay_call' = IF Truthy(rc.limit) /\ rc.replayed >= rc.limit
                          THEN [rc EXCEPT !.st = "returned"]
                          ELSE ReplayAdvance(rc, rc.pos + 1)
    /\ UNCHANGED <<intent_vars, pq_vars, bus_vars, created_at, sched_vars>>

(* -------------------------- PrioritizedQueue --------------------------- *)
\* an item: the k-th item enqueued, and what priority_fn says of it
Item(k, is_high) == [id |-> k, is_high |-> is_high]

\* _size
Size(h, n) == Len(h) + Len(n)

\* enqueue that makes room only when the queue is over its capacity
EnqueueEvictsLate(is_high) ==
    LET item == Item(metrics.enqueued + 1, is_high)
        full == Size(high, normal) > maxsize
        n1 == IF full /\ normal # <<>> THEN Tail(normal) ELSE normal
        h1 == IF full /\ normal = <<>> /\ high # <<>> THEN Tail(high) ELSE high
        h2 == IF is_high THEN Append(h1, item) ELSE h1
        n2 == IF is_high THEN n1 ELSE Append(n1, item)
    IN  /\ metrics.enqueued < MaxEnqueues
        /\ high' = h2
        /\ normal' = n2
        /\ metrics' = [metrics EXCEPT !.dropped = IF full THEN @ + 1 ELSE @,
                                      !.enqueued = @ + 1,
                                      !.max_depth = Max(@, Size(h2, n2))]
        /\ returned' = "True"
        /\ evicted' = IF ~full THEN evicted
                      ELSE IF normal # <<>> THEN Append(evicted, Head(normal))
                      ELSE IF high # <<>> THEN Append(evicted, Head(high))
                      ELSE evicted
        /\ enqueued_at' = Append(enqueued_at, Len(handled))
        /\ UNCHANGED <<intent_vars,
                       bus_vars, replay_vars, sched_vars, maxsize, max_batch, run_loop,
                       handled>>

\* enqueue that makes room in the high tier first
EnqueueEvictsHighFirst(is_high) ==
    LET item == Item(metrics.enqueued + 1, is_high)
        full == Size(high, normal) >= maxsize
        h1 == IF full /\ high # <<>> THEN Tail(high) ELSE high
        n1 == IF full /\ high = <<>> /\ normal # <<>> THEN Tail(normal) ELSE normal
        h2 == IF is_high THEN Append(h1, item) ELSE h1
        n2 == IF is_high THEN n1 ELSE Append(n1, item)
    IN  /\ metrics.enqueued < MaxEnqueues
        /\ high' = h2
        /\ normal' = n2
        /\ metrics' = [metrics EXCEPT !.dropped = IF full THEN @ + 1 ELSE @,
                                      !.enqueued = @ + 1,
                                      !.max_depth = Max(@, Size(h2, n2))]
        /\ returned' = "True"
        /\ evicted' = IF ~full THEN evicted
                      ELSE IF high # <<>> THEN Append(evicted, Head(high))
                      ELSE Append(evicted, Head(normal))
        /\ enqueued_at' = Append(enqueued_at, Len(handled))
        /\ UNCHANGED <<intent_vars,
                       bus_vars, replay_vars, sched_vars, maxsize, max_batch, run_loop,
                       handled>>

\* enqueue that turns the new item away when the queue is full
EnqueueRejectsWhenFull(is_high) ==
    LET item == Item(metrics.enqueued + 1, is_high)
        full == Size(high, normal) >= maxsize
        h2 == IF is_high /\ ~full THEN Append(high, item) ELSE high
        n2 == IF is_high \/ full THEN normal ELSE Append(normal, item)
    IN  /\ metrics.enqueued < MaxEnqueues
        /\ high' = h2
        /\ normal' = n2
        /\ metrics' = [metrics EXCEPT !.dropped = IF full THEN @ + 1 ELSE @,
                                      !.enqueued = @ + 1,
                                      !.max_depth = Max(@, Size(h2, n2))]
        /\ returned' = IF full THEN "False" ELSE "True"
        /\ evicted' = IF full THEN Append(evicted, item) ELSE evicted
        /\ enqueued_at' = Append(enqueued_at, Len(handled))
        /\ UNCHANGED <<intent_vars,
                       bus_vars, replay_vars, sched_vars, maxsize, max_batch, run_loop,
                       handled>>

\* enqueue(item): with the queue full the oldest normal item is evicted, or the oldest
\* high item when there is no normal one; then the item is appended to its tier
Enqueue(is_high) ==
    LET item == Item(metrics.enqueued + 1, is_high)
        full == Size(high, normal) >= maxsize
        n1 == IF full /\ normal # <<>> THEN Tail(normal) ELSE normal
        h1 == IF full /\ normal = <<>> /\ high # <<>> THEN Tail(high) ELSE high
        h2 == IF is_high THEN Append(h1, item) ELSE h1
        n2 == IF is_high THEN n1 ELSE Append(n1, item)
    IN  /\ metrics.enqueued < MaxEnqueues
        /\ high' = h2
        /\ normal' = n2
        /\ metrics' = [metrics EXCEPT !.dropped = IF full THEN @ + 1 ELSE @,
                                      !.enqueued = @ + 1,
                                      !.max_depth = Max(@, Size(h2, n2))]
        /\ returned' = "True"
        /\ evicted' = IF ~full THEN evicted
                      ELSE IF normal # <<>> THEN Append(evicted, Head(normal))
                      ELSE IF high # <<>> THEN Append(evicted, Head(high))
                      ELSE evicted
        /\ enqueued_at' = Append(enqueued_at, Len(handled))
        /\ UNCHANGED <<intent_vars,
                       bus_vars, replay_vars, sched_vars, maxsize, max_batch, run_loop,
                       handled>>

\* _dequeue_batch that fills the batch from the normal tier first
DequeueBatchNormalFirst(h, n) ==
    LET nn == Min(Len(n), max_batch)
        nh == Min(Len(h), max_batch - nn)
    IN  [batch |-> SubSeq(n, 1, nn) \o SubSeq(h, 1, nh),
         high |-> SubSeq(h, nh + 1, Len(h)),
         normal |-> SubSeq(n, nn + 1, Len(n))]

\* _dequeue_batch that takes one item more than max_batch
DequeueBatchTakesOneMore(h, n) ==
    LET nh == Min(Len(h), max_batch + 1)
        nn == Min(Len(n), max_batch + 1 - nh)
    IN  [batch |-> SubSeq(h, 1, nh) \o SubSeq(n, 1, nn),
         high |-> SubSeq(h, nh + 1, Len(h)),
         normal |-> SubSeq(n, nn + 1, Len(n))]

\* the two tiers as one queue, oldest item first
RECURSIVE OldestFirst(_, _)
OldestFirst(h, n) ==
    IF h = <<>> THEN n
    ELSE IF n = <<>> THEN h
    ELSE IF Head(h).id < Head(n).id THEN <<Head(h)>> \o OldestFirst(Tail(h), n)
    ELSE <<Head(n)>> \o OldestFirst(h, Tail(n))

\* _dequeue_batch that takes the oldest items first, whatever their tier
DequeueBatchOldestFirst(h, n) ==
    LET all == OldestFirst(h, n)
        batch == SubSeq(all, 1, Min(Len(all), max_batch))
        taken == {batch[i].id : i \in 1..Len(batch)}
    IN  [batch |-> batch,
         high |-> SelectSeq(h, LAMBDA x : x.id \notin taken),
         normal |-> SelectSeq(n, LAMBDA x : x.id \notin taken)]

\* _dequeue_batch: high items while the batch has room, then normal items
DequeueBatch(h, n) ==
    LET nh == Min(Len(h), max_batch)
        nn == Min(Len(n), max_batch - nh)
    IN  [batch |-> SubSeq(h, 1, nh) \o SubSeq(n, 1, nn),
         high |-> SubSeq(h, nh + 1, Len(h)),
         normal |-> SubSeq(n, nn + 1, Len(n))]

\* One turn of the loop of run(), from its top to its next await: a batch is taken;
\* when it is empty the loop sleeps a tick, else the handler is called on its first
\* item.  rl is the call as it comes out of the sleep or into run().
Iterate(rl) ==
    LET d == DequeueBatch(high, normal)
    IN  /\ high' = d.high
        /\ normal' = d.normal
        /\ IF d.batch = <<>>
           THEN /\ run_loop' = [rl EXCEPT !.pc = "sleep", !.batch = <<>>, !.todo = <<>>,
                                          !.since_sleep = 0]
                /\ UNCHANGED handled
           ELSE /\ run_loop' = [rl EXCEPT !.pc = "handler", !.batch = d.batch,
                                          !.todo = d.batch, !.since_sleep = 1]
                /\ handled' = Append(handled, d.batch[1])

\* run() is called: by the task that owns the queue, or again after run() has ended
QueueRun ==
    /\ run_loop.pc \in {"off", "failed"}
    /\ run_loop.calls < MaxRunCalls
    /\ Iterate([run_loop EXCEPT !.calls = @ + 1])
    /\ UNCHANGED <<intent_vars,
                   bus_vars, replay_vars, sched_vars, maxsize, max_batch, enqueued_at,
                   metrics,
                   returned, evicted>>

\* the tick sleep is over
QueueWake ==
    /\ run_loop.pc = "sleep"
    /\ Iterate(run_loop)
    /\ UNCHANGED <<intent_vars,
                   bus_vars, replay_vars, sched_vars, maxsize, max_batch, enqueued_at,
                   metrics,
                   returned, evicted>>

\* the loop of run() without the sleep after a batch: after the last item the next
\* batch is taken at once
QueueHandlerReturnDrainsAgain ==
    LET item == Head(run_loop.todo)
        rest == Tail(run_loop.todo)
        d == DequeueBatch(high, normal)
    IN  /\ run_loop.pc = "handler"
        /\ metrics' = [metrics EXCEPT !.processed = @ + 1,
                                      !.processed_high = IF item.is_high THEN @ + 1 ELSE @,
                                      !.processed_normal = IF item.is_high THEN @ ELSE @ + 1]
        /\ IF rest # <<>>
           THEN /\ run_loop' = [run_loop EXCEPT !.todo = rest, !.since_sleep = @ + 1]
                /\ handled' = Append(handled, Head(rest))
                /\ UNCHANGED <<high, normal>>
           ELSE IF d.batch = <<>>
           THEN /\ run_loop' = [run_loop EXCEPT !.pc = "sleep", !.todo = <<>>]
                /\ UNCHANGED <<handled, high, normal>>
           ELSE /\ run_loop' = [run_loop EXCEPT !.batch = d.batch, !.todo = d.batch,
                                                !.since_sleep = @ + 1]
                /\ handled' = Append(handled, d.batch[1])
                /\ high' = d.high
                /\ normal' = d.normal
        /\ UNCHANGED <<intent_vars,
                       bus_vars, replay_vars, sched_vars, maxsize, max_batch, enqueued_at,
                       returned,
                       evicted>>

\* the handler returns: the counters move, and the loop goes on to the next item of
\* the batch, or sleeps a tick after the last one
QueueHandlerReturn ==
    LET item == Head(run_loop.todo)
        rest == Tail(run_loop.todo)
    IN  /\ run_loop.pc = "handler"
        /\ metrics' = [metrics EXCEPT !.processed = @ + 1,
                                      !.processed_high = IF item.is_high THEN @ + 1 ELSE @,
                                      !.processed_normal = IF item.is_high THEN @ ELSE @ + 1]
        /\ IF rest = <<>>
           THEN /\ run_loop' = [run_loop EXCEPT !.pc = "sleep", !.todo = <<>>]
                /\ UNCHANGED handled
           ELSE /\ run_loop' = [run_loop EXCEPT !.todo = rest, !.since_sleep = @ + 1]
                /\ handled' = Append(handled, Head(rest))
        /\ UNCHANGED <<intent_vars,
                       bus_vars, replay_vars, sched_vars, maxsize, max_batch, enqueued_at,
                       high, normal,
                       returned, evicted>>

\* the handler raises an Exception: nothing in run() catches it, the call ends with
\* it, and the items of the batch that were not handled yet go with the call
QueueHandlerRaise ==
    /\ run_loop.pc = "handler"
    /\ run_loop' = [run_loop EXCEPT !.pc = "failed"]
    /\ UNCHANGED <<intent_vars,
                   bus_vars, replay_vars, sched_vars, maxsize, max_batch, enqueued_at,
                       high, normal,
                   metrics, returned, handled, evicted>>

(* --------------------------- specification ----------------------------- *)
\* the steps of the bus itself: what the event loop runs, and the passing of time
Dispatch ==
    \/ \E e \in EventIds : PublishReturn(e)
    \/ \E e \in EventIds : \E i \in 1..(2 * MaxSubs) : Put(e, i)
    \/ \E e \in EventIds : \E i \in 1..(2 * MaxSubs) : PutTimeout(e, i)
    \/ \E w \in WorkerIds : WorkerGetInvoke(w)
    \/ \E w \in WorkerIds : WorkerGetWait(w)
    \/ \E w \in WorkerIds : Acquire(w)
    \/ \E w \in WorkerIds : AcquireTimeout(w)
    \/ \E w \in WorkerIds : HandlerPublish(w, "a")
    \/ \E w \in WorkerIds : HandlerReturn(w)
    \/ \E w \in WorkerIds : HandlerRaise(w)
    \/ \E w \in WorkerIds : HandlerTimeout(w)
    \/ \E w \in WorkerIds : HandlerIgnoresCancel(w)
    \/ Tick

(* -------------------------- intent classifier ------------------------- *)
INTENT_UPDATED == "intent.updated"

\* A transcript is the sequence of the tokens _TOKEN_PATTERN finds in it, stripped
\* and in lower case.
Transcripts ==
    {<<>>, <<"silence">>, <<"hi">>, <<"how", "are", "you">>, <<"open", "files">>,
     <<"status">>}

GREETINGS == {"hi", "hello", "hey"}
CONVERSE_PHRASES ==
    {<<"how", "are", "you">>, <<"how's", "it", "going">>, <<"hows", "it", "going">>,
     <<"what's", "up">>, <<"whats", "up">>, <<"say", "something">>}
COMMAND_VERBS == {"open", "run", "show", "do", "execute", "start", "launch"}

\* INTENT_KEYWORDS in the order of the dict, the weights in tenths
IntentOrder ==
    <<"greet", "converse", "command", "status_check", "focus_planning", "wellbeing",
      "summary">>
INTENT_KEYWORDS ==
    [greet |-> {<<"hello", 12>>, <<"hi", 11>>, <<"hey", 10>>},
     converse |-> {<<"chat", 8>>, <<"talk", 8>>, <<"how", 7>>, <<"what", 5>>, <<"up", 4>>},
     command |-> {<<"open", 10>>, <<"run", 10>>, <<"show", 9>>, <<"do", 8>>,
                  <<"execute", 10>>, <<"start", 9>>, <<"launch", 9>>, <<"help", 7>>},
     status_check |-> {<<"status", 12>>, <<"health", 10>>, <<"metrics", 9>>, <<"cpu", 7>>,
                       <<"memory", 7>>, <<"system", 6>>, <<"performance", 6>>},
     focus_planning |-> {<<"focus", 11>>, <<"schedule", 10>>, <<"plan", 8>>,
                         <<"agenda", 8>>, <<"deadline", 7>>, <<"block", 6>>,
                         <<"quiet", 5>>},
     wellbeing |-> {<<"break", 11>>, <<"rest", 10>>, <<"stretch", 9>>, <<"hydrate", 8>>,
                    <<"tired", 8>>, <<"remind", 7>>},
     summary |-> {<<"summary", 12>>, <<"summarize", 11>>, <<"recap", 10>>,
                  <<"digest", 9>>, <<"brief", 8>>}]

TokensOf(tr) == {tr[i] : i \in 1..Len(tr)}

\* phrase in transcript
Contains(tr, phrase) ==
    \E i \in 0..(Len(tr) - Len(phrase)) : SubSeq(tr, i + 1, i + Len(phrase)) = phrase

\* sum(weight for token, weight in keywords.items() if token in tokens)
RECURSIVE Score(_, _)
Score(keywords, tokens) ==
    IF keywords = {} THEN 0
    ELSE LET k == CHOOSE x \in keywords : TRUE
         IN  (IF k[1] \in tokens THEN k[2] ELSE 0) + Score(keywords \ {k}, tokens)

\* the loop over INTENT_KEYWORDS from the k-th intent on: the first intent with the
\* greatest score wins
RECURSIVE BestFrom(_, _, _)
BestFrom(k, tokens, best) ==
    IF k > Len(IntentOrder) THEN best
    ELSE LET score == Score(INTENT_KEYWORDS[IntentOrder[k]], tokens)
         IN  BestFrom(k + 1, tokens,
                      IF score > best.score
                      THEN [intent |-> IntentOrder[k], score |-> score]
                      ELSE best)

\* _intent_from_transcript(transcript, raw_confidence); confidences in thousandths
IntentFromTranscript(tr, raw) ==
    LET tokens == TokensOf(tr)
        best == BestFrom(1, tokens, [intent |-> "converse", score |-> 0])
    IN  IF tr = <<>> \/ tr = <<"silence">>
        THEN [intent |-> "idle", confidence |-> Max(200, raw)]
        ELSE IF \E phrase \in CONVERSE_PHRASES : Contains(tr, phrase)
        THEN [intent |-> "converse", confidence |-> Max(600, raw)]
        ELSE IF tr[1] \in GREETINGS /\ Len(tr) <= 3
        THEN [intent |-> "greet", confidence |-> Max(700, raw)]
        ELSE IF \/ tr[1] \in COMMAND_VERBS
                \/ Len(tr) > 1 /\ tr[1] = "please" /\ tr[2] \in COMMAND_VERBS
        THEN [intent |-> "command", confidence |-> Max(650, raw)]
        ELSE IF best.score <= 0
        THEN IF COMMAND_VERBS \cap tokens # {}
             THEN [intent |-> "command", confidence |-> Max(600, raw)]
             ELSE [intent |-> "converse", confidence |-> Max(500, raw)]
        ELSE [intent |-> best.intent,
              confidence |-> Max(Max(Min(350 + best.score * 15, 900), raw), 550)]

\* _intent_from_telemetry that keeps the conversation open: each telemetry event
\* moves the expiry
IntentFromTelemetryExtends(t) ==
    IF conversation_active
    THEN IF t >= conversation_expires_at
         THEN [intent |-> "idle", confidence |-> 300, active |-> FALSE, expires_at |-> 0]
         ELSE [intent |-> current_intent, confidence |-> current_confidence,
               active |-> TRUE, expires_at |-> t + conversation_duration]
    ELSE IF current_intent # "idle"
    THEN [intent |-> current_intent, confidence |-> current_confidence,
          active |-> conversation_active, expires_at |-> conversation_expires_at]
    ELSE [intent |-> "idle", confidence |-> 300,
          active |-> conversation_active, expires_at |-> conversation_expires_at]

\* _intent_from_telemetry(now): what it returns, and what it leaves in
\* _conversation_active and _conversation_expires_at
IntentFromTelemetry(t) ==
    IF conversation_active
    THEN IF t >= conversation_expires_at
         THEN [intent |-> "idle", confidence |-> 300, active |-> FALSE, expires_at |-> 0]
         ELSE [intent |-> current_intent, confidence |-> current_confidence,
               active |-> TRUE, expires_at |-> conversation_expires_at]
    ELSE IF current_intent # "idle"
    THEN [intent |-> current_intent, confidence |-> current_confidence,
          active |-> conversation_active, expires_at |-> conversation_expires_at]
    ELSE [intent |-> "idle", confidence |-> 300,
          active |-> conversation_active, expires_at |-> conversation_expires_at]

\* _is_user_input(event)
IsUserInput(ev) ==
    \/ ev.event_type = "speech.transcript"
    \/ ev.source \in {"cli.input", "web_ui.input"}

\* the event is telemetry: context.tagged or emotion.detected, not from the user
IsTelemetry(ev) ==
    ev.event_type \in {"context.tagged", "emotion.detected"} /\ ~IsUserInput(ev)

IntentEvent(type, source, tr, raw, tags, emotion) ==
    [event_type |-> type, source |-> source, transcript |-> tr, confidence |-> raw,
     tags |-> tags, emotion |-> emotion]

\* the events the classifier is given: transcripts from the microphone and from the
\* command line, context tags from the context tagger and from the command line,
\* emotions, and an event of a type the classifier has no rule for
IntentEvents ==
    {IntentEvent("speech.transcript", "cli.input", tr, raw, <<>>, "neutral") :
        tr \in Transcripts, raw \in {LowConfidence, HighConfidence}}
    \cup {IntentEvent("context.tagged", source, <<>>, LowConfidence, <<"telemetry">>,
                      "neutral") : source \in {"interpretation.context", "cli.input"}}
    \cup {IntentEvent("emotion.detected", "interpretation.emotion", <<>>, LowConfidence,
                      <<>>, "happy"),
          IntentEvent("system.metrics", "sensors.system", <<>>, LowConfidence, <<>>,
                      "neutral")}

\* _process_event(event), with the publish call it ends with.  The bus has a
\* handler for intent.updated only under "*"; with no handler publish returns without
\* waiting.
ProcessEvent(ev) ==
    LET speech == ev.event_type = "speech.transcript"
        is_user_input == IF speech /\ ev.transcript = <<"silence">> THEN FALSE
                         ELSE IsUserInput(ev)
        by_transcript == speech /\ is_user_input
        by_telemetry == \/ speech /\ ~is_user_input
                        \/ ev.event_type \in {"context.tagged", "emotion.detected"}
        said == IntentFromTranscript(ev.transcript, ev.confidence)
        held == IntentFromTelemetry(now)
        intent == IF by_transcript THEN said.intent
                  ELSE IF by_telemetry THEN held.intent ELSE current_intent
        confidence == IF by_transcript THEN said.confidence
                      ELSE IF by_telemetry THEN held.confidence ELSE current_confidence
        active == IF by_telemetry THEN held.active ELSE conversation_active
        expires_at == IF by_telemetry THEN held.expires_at ELSE conversation_expires_at
        e == calls + 1
        hs == MatchingHandlers(INTENT_UPDATED)
        room == Room(Len(hs))
    IN  /\ e \in EventIds
        /\ context_tags' = IF ev.event_type = "context.tagged" THEN ev.tags
                           ELSE context_tags
        /\ last_emotion' = IF ev.event_type = "emotion.detected" THEN ev.emotion
                           ELSE last_emotion
        /\ last_transcript' = IF by_transcript THEN ev.transcript ELSE last_transcript
        /\ conversation_active' =
              IF is_user_input /\ intent \in {"greet", "converse"} THEN TRUE
              ELSE IF is_user_input /\ active THEN FALSE
              ELSE active
        /\ conversation_expires_at' =
              IF is_user_input /\ intent \in {"greet", "converse"}
              THEN now + conversation_duration
              ELSE IF is_user_input /\ active THEN 0
              ELSE expires_at
        /\ current_intent' = intent
        /\ current_confidence' = confidence
        /\ emitted' = Append(emitted,
                             [intent |-> intent, confidence |-> confidence,
                              transcript |-> IF speech THEN ev.transcript ELSE <<>>,
                              at |-> now, user |-> is_user_input,
                              telemetry |-> IsTelemetry(ev)])
        /\ calls' = calls + 1
        /\ history' = HistoryAppend(e, INTENT_UPDATED)
        /\ published' = published + 1
        /\ pub' = [pub EXCEPT ![e] =
                      [st |-> IF hs = <<>> THEN "returned" ELSE "gather",
                       event_type |-> INTENT_UPDATED, caller |-> 0, waited |-> 0]]
        /\ att' = [att EXCEPT ![e] = NewAttempts(hs, room)]
        /\ queue' = queue \o [i \in 1..room |-> <<e, i>>]
        /\ workers' = IF hs # <<>> THEN EnsureWorkers(workers) ELSE workers
        /\ ticked' = FALSE
        /\ spaced' = (spaced \/ ticked)
        /\ UNCHANGED <<replay_vars, sched_vars, pq_vars, config, subscribers, dropped,
                       errors, timeouts, last_publish, slots>>

\* Dispatch under load: events of one type, handlers of every behaviour.  A
\* publish call from outside leaves the handlers that have started the events they
\* are about to publish.
Next ==
    \/ \E h \in HandlerIds \ {"ok2"} : Subscribe("a", h)
    \/ calls + Reserved < MaxEvents /\ Publish("a")
    \/ Dispatch

Spec == Init /\ [][Next]_vars

\* the event loop runs every ready coroutine and time passes
FairSpec == Spec /\ WF_vars(Dispatch)

\* the steps of the bus that need no timer
InstantDispatch ==
    \/ \E e \in EventIds : PublishReturn(e)
    \/ \E e \in EventIds : \E i \in 1..(2 * MaxSubs) : Put(e, i)
    \/ \E w \in WorkerIds : WorkerGetInvoke(w)
    \/ \E w \in WorkerIds : WorkerGetWait(w)
    \/ \E w \in WorkerIds : Acquire(w)
    \/ \E w \in WorkerIds : HandlerReturn(w)

\* The buffers: the bus is made with every queue_maxsize and worker_count, 0
\* included; __init__ raises a worker_count below 1 to 1
BufferInit ==
    /\ max_in_flight \in 1..MaxInFlight
    /\ \E w \in 0..MaxWorkers : worker_count = Max(1, w)
    /\ queue_maxsize \in 0..SmallQueue
    /\ BusInit
    /\ ReplayFresh
    /\ SchedulerFresh
    /\ QueueFresh
    /\ IntentInit

BufferSpec == BufferInit /\ [][Next]_vars

\* The registry: handlers that return at once, subscribed under every key, and
\* events of a plain type and of the type "*".  No handler waits, so no timer runs
\* and the steps that need one are never enabled.
RegistryNext ==
    \/ \E k \in Keys : \E h \in {"ok", "ok2"} : Subscribe(k, h)
    \/ \E t \in {"a", WILDCARD} : calls < MaxEvents /\ Publish(t)
    \/ InstantDispatch

RegistrySpec == Init /\ [][RegistryNext]_vars

\* The history: longer runs of publish calls, with at most one subscriber
HistoryNext ==
    \/ \E k \in {"a", WILDCARD} : NumSubs = 0 /\ Subscribe(k, "ok")
    \/ \E t \in {"a", "b"} : calls < MaxHistEvents /\ Publish(t)
    \/ InstantDispatch

HistorySpec == Init /\ [][HistoryNext]_vars

\* Replay: events of two types and of every order of creation times are published
\* with no subscriber, and one replay call runs while they are.
ReplayInit ==
    /\ max_in_flight = MaxInFlight
    /\ worker_count = MaxWorkers
    /\ queue_maxsize = SmallQueue
    /\ BusInit
    /\ created_at \in [EventIds -> 1..MaxStamp]
    /\ replay_call = NoReplay
    /\ SchedulerFresh
    /\ QueueFresh
    /\ IntentInit

ReplayNext ==
    \/ \E t \in {"a", "b"} : calls < MaxHistEvents /\ Publish(t)
    \/ \E t \in {"a", WILDCARD} : \E since \in {None} \cup 1..MaxStamp :
          \E limit \in {None} \cup 0..MaxLimit : ReplayCall(t, since, limit)
    \/ ReplayHandlerReturn

ReplaySpec == ReplayInit /\ [][ReplayNext]_vars

\* what the event loop runs for the scheduler: the tasks and their done callbacks
Supervise ==
    \/ \E r \in RunIds : RunStart(r)
    \/ \E r \in RunIds : RunCancelledEarly(r)
    \/ \E r \in RunIds : RunReturn(r)
    \/ \E r \in RunIds : RunRaise(r)
    \/ \E r \in RunIds : RunCancelled(r)
    \/ \E r \in RunIds : RunClose(r)
    \/ \E r \in RunIds : OnTaskDone(r)
    \/ ShutdownReturn

SchedulerStart ==
    /\ max_in_flight = MaxInFlight
    /\ worker_count = MaxWorkers
    /\ queue_maxsize = SmallQueue
    /\ BusInit
    /\ ReplayFresh
    /\ SchedulerFresh
    /\ QueueFresh
    /\ IntentInit

\* the one shutdown() call of a run of the scheduler
FirstShutdown == shutdown_call.calls = 0 /\ ShutdownCall

\* The scheduler in general: tasks of every behaviour and cost are scheduled, a name
\* may be scheduled again, and shutdown is called at any moment.  No schedule call
\* is made while shutdown waits.
SchedulerNext ==
    \/ \E n \in Names : \E prio \in {1, 2} : \E cost \in 1..MaxCost :
          /\ shutdown_call.st = "idle"
          /\ Schedule(n, prio, cost, n \in {"raiser", "stubborn"}, 1)
    \/ FirstShutdown
    \/ Supervise

SchedulerSpec == SchedulerStart /\ [][SchedulerNext]_vars

Scheduled(n) == \E i \in 1..Len(task_specs) : task_specs[i].name = n

\* Supervision: each name is scheduled at most once, with every restart policy, and
\* shutdown is called at any moment.
OnceNext ==
    \/ \E n \in Names : \E cost \in 1..MaxCost : \E restart \in BOOLEAN :
          \E max \in 0..MaxRestarts :
            /\ shutdown_call.st = "idle"
            /\ ~Scheduled(n)
            /\ Len(task_specs) < MaxOnce
            /\ Schedule(n, 1, cost, restart, max)
    \/ FirstShutdown
    \/ Supervise

OnceSpec == SchedulerStart /\ [][OnceNext]_vars

\* the event loop runs every task and every callback that is ready
FairOnceSpec == OnceSpec /\ WF_vars(Supervise)

\* Shutdown again and again: each name is scheduled at most once, before, between
\* or after the shutdown() calls.
ShutdownNext ==
    \/ \E n \in Names : \E cost \in 1..MaxCost :
          /\ shutdown_call.st = "idle"
          /\ ~Scheduled(n)
          /\ Len(task_specs) < MaxOnce
          /\ Schedule(n, 1, cost, n \in {"raiser", "stubborn"}, 1)
    \/ ShutdownCall
    \/ Supervise

ShutdownSpec == SchedulerStart /\ [][ShutdownNext]_vars

\* The classifier: it is given events of every kind, one by one as its queue hands
\* them over, and time passes between them.
IntentNext ==
    \/ \E ev \in IntentEvents : ProcessEvent(ev)
    \/ Pass

IntentSpec == SchedulerStart /\ [][IntentNext]_vars

\* Heartbeats: each name is scheduled at most once, time passes, and the heartbeat
\* tasks wake when their sleep is over.
HeartbeatNext ==
    \/ \E n \in Names :
          /\ shutdown_call.st = "idle"
          /\ ~Scheduled(n)
          /\ Len(task_specs) < MaxOnce
          /\ Schedule(n, 1, 1, n \in {"raiser", "stubborn"}, 1)
    \/ FirstShutdown
    \/ Supervise
    \/ \E r \in RunIds : Heartbeat(r)
    \/ Pass

HeartbeatSpec == SchedulerStart /\ [][HeartbeatNext]_vars

\* A scheduler whose budget and costs make sums that are rounded: each name is
\* scheduled at most once, and shutdown is called at any moment.
RoundingStart ==
    /\ max_in_flight = MaxInFlight
    /\ worker_count = MaxWorkers
    /\ queue_maxsize = SmallQueue
    /\ BusInit
    /\ ReplayFresh
    /\ SchedulerInit
    /\ power_budget = LargeBudget
    /\ QueueFresh
    /\ IntentInit

RoundingNext ==
    \/ \E n \in Names : \E cost \in LargeCosts :
          /\ shutdown_call.st = "idle"
          /\ ~Scheduled(n)
          /\ Schedule(n, 1, cost, n \in {"raiser", "stubborn"}, 1)
    \/ FirstShutdown
    \/ Supervise

RoundingSpec == RoundingStart /\ [][RoundingNext]_vars

FairRoundingSpec == RoundingSpec /\ WF_vars(Supervise)

\* The queue: it is constructed with every capacity and batch size, maxsize and
\* max_batch of 0 included; items of both priorities are enqueued at any moment, and
\* the handler returns or raises.
QueueStart ==
    /\ max_in_flight = MaxInFlight
    /\ worker_count = MaxWorkers
    /\ queue_maxsize = SmallQueue
    /\ BusInit
    /\ ReplayFresh
    /\ SchedulerFresh
    /\ \E m \in 0..MaxSize : maxsize = Max(1, m)
    /\ \E b \in 0..MaxBatch : max_batch = Max(1, b)
    /\ QueueInit
    /\ IntentInit

\* what the event loop runs for the queue
QueueLoop ==
    \/ QueueWake
    \/ QueueHandlerReturn
    \/ QueueHandlerRaise

QueueNext ==
    \/ \E is_high \in BOOLEAN : Enqueue(is_high)
    \/ QueueRun
    \/ QueueLoop

QueueSpec == QueueStart /\ [][QueueNext]_vars

(* ------------------------------ typing --------------------------------- *)
TypeOK ==
    /\ max_in_flight \in 1..MaxInFlight
    /\ worker_count \in 1..MaxWorkers
    /\ slots \in 0..max_in_flight
    /\ Len(queue) <= queue_maxsize
    /\ published = calls
    /\ ~(~Ready /\ Waiting) \/ \E k \in Keys : \E i \in 1..Len(subscribers[k]) : subscribers[k][i] \notin {"ok", "ok2"}
    /\ \A w \in WorkerIds : workers[w].timer >= 0
    /\ \A e \in EventIds : \A i \in 1..Len(att[e]) : att[e][i].timer >= 0

(* ------------------------------ claims --------------------------------- *)
Attempts == {ei \in EventIds \X (1..(2 * MaxSubs)) : ei[2] <= Len(att[ei[1]])}
A(ei) == att[ei[1]][ei[2]]
Resolved(ei) == A(ei).st \in {"dropped", "finished"}
Executing == {w \in WorkerIds : InBody(w)}

\* C1: in every reachable state the number of handler invocations executing inside
\* a handler body is at most max_in_flight.
C1_InFlightBound == Cardinality(Executing) <= max_in_flight

\* two workers compete for the only slot: one runs a handler, the other waits
C1_Witness ==
    /\ max_in_flight = 1
    /\ \E w \in WorkerIds : InBody(w)
    /\ \E w \in WorkerIds : workers[w].pc = "acquire"

C3_InvokedOrDropped ==
    /\ \A ei \in Attempts :
        /\ A(ei).invoked + A(ei).drops <= 1
        /\ A(ei).st = "dropped" => A(ei).invoked = 0 /\ A(ei).drops = 1
        /\ A(ei).st = "finished" => A(ei).invoked = 1 /\ A(ei).drops = 0
        /\ A(ei).st \in {"putting", "queued"} => A(ei).invoked = 0 /\ A(ei).drops = 0
    /\ dropped = Cardinality({ei \in Attempts : A(ei).drops > 0})

\* one event with an attempt dropped while waiting for the slot and one invoked
C3_Witness ==
    \E e \in EventIds : \E i, j \in 1..Len(att[e]) :
        /\ att[e][i].st = "finished"
        /\ att[e][j].st = "dropped"
        /\ dropped = 1
        /\ \E w \in WorkerIds : workers[w].pc = "idle"

\* C4: a step in which a handler raises adds exactly 1 to errors, leaves history
\* and the published, dropped and timeouts counters unchanged, leaves every publish
\* call, every other attempt and the queue as they were, releases the slot and
\* returns the worker to queue.get().
C4_RaiseIsIsolated ==
    [][errors' # errors =>
        /\ errors' = errors + 1
        /\ UNCHANGED <<history, calls, published, dropped, timeouts, pub, queue>>
        /\ slots' = slots + 1
        /\ \E w \in WorkerIds :
            /\ workers[w].pc = "body"
            /\ workers' = [workers EXCEPT ![w] = IdleWorker]
            /\ att' = [att EXCEPT ![workers[w].job[1]][workers[w].job[2]] =
                          [@ EXCEPT !.st = "finished", !.res = "raised"]]
      ]_vars

\* with one worker: a handler raised and the next handler of the same event ran
C4_Witness ==
    /\ worker_count = 1
    /\ errors = 1
    /\ \E e \in EventIds :
        /\ Len(att[e]) = 2
        /\ att[e][1].res = "raised"
        /\ att[e][2].res = "completed"

C6_Scenario ==
    /\ max_in_flight = 1
    /\ NumSubs = 1
    /\ subscribers["a"] = <<"slow">>
    /\ calls = 2
    /\ ~spaced
    /\ \A e \in 1..2 : pub[e].caller = 0 /\ Len(att[e]) = 1 /\ Resolved(<<e, 1>>)

C6_Outcome ==
    /\ dropped = 1
    /\ att[2][1].st = "dropped"
    /\ att[1][1].res = "completed"

C7_PublishTerminates ==
    /\ \A e \in EventIds : (pub[e].st = "gather") ~> (pub[e].st = "returned")
    /\ [](\A e \in EventIds : pub[e].waited <= backpressure_timeout)

\* a handler that ignores its cancellation holds the only worker, the queue is
\* full, and a publish call has returned after backpressure_timeout with all its
\* attempts dropped
C7_Witness ==
    /\ \E w \in WorkerIds : workers[w].pc = "zombie"
    /\ Len(queue) = queue_maxsize
    /\ \E e \in EventIds :
        /\ pub[e].st = "returned"
        /\ pub[e].waited = backpressure_timeout
        /\ Len(att[e]) = 2
        /\ \A i \in 1..Len(att[e]) : att[e][i].st = "dropped"

\* C8: after N publish calls the history holds the last min(N, max_history) events
\* in publish order; recent_events(limit) is the last min(limit, size) of them in
\* that order, and empty for limit <= 0.
C8_HistoryIsLastEvents ==
    LET n == Min(calls, max_history) IN
    /\ Len(history) = n
    /\ \A i \in 1..n :
        history[i] = Event(calls - n + i, pub[calls - n + i].event_type)
    /\ \A limit \in (-1)..(max_history + 1) :
        LET r == recent_events(limit)
            m == IF limit <= 0 THEN 0 ELSE Min(limit, Len(history))
        IN  /\ Len(r) = m
            /\ \A j \in 1..m : r[j] = history[Len(history) - m + j]

\* more events published than the history holds: the oldest has been evicted
C8_Witness ==
    /\ calls = max_history + 1
    /\ Len(history) = max_history
    /\ history[1].event_id = 2

\* C9: the events in history are in the order of their publish calls, the newest
\* last, also while earlier publish calls have not returned; published equals the
\* number of publish calls that have appended to history.
C9_PublishOrder ==
    /\ published = calls
    /\ published = Cardinality({e \in EventIds : pub[e].st # "none"})
    /\ \A i, j \in 1..Len(history) : i < j => history[i].event_id < history[j].event_id
    /\ calls > 0 => history[Len(history)].event_id = calls

\* two publish calls overlap: the first has not returned when the second is made
C9_Witness ==
    /\ calls = 2
    /\ pub[1].st = "gather"
    /\ pub[2].st = "gather"
    /\ Len(history) = 2

\* C10: a publish call makes one attempt per entry of the list registered under the
\* event's type followed by the list registered under "*", in that order, and no
\* other attempt.
C10_AttemptsFollowRegistry ==
    [][calls' = calls + 1 =>
        LET e == calls'
            t == pub'[e].event_type
        IN  /\ Len(att'[e]) = Len(subscribers[t]) + Len(subscribers[WILDCARD])
            /\ \A i \in 1..Len(subscribers[t]) : att'[e][i].h = subscribers[t][i]
            /\ \A i \in 1..Len(subscribers[WILDCARD]) :
                att'[e][Len(subscribers[t]) + i].h = subscribers[WILDCARD][i]
      ]_vars

\* a handler registered under "a" and under "*" got two attempts for an event of
\* type "a"; an event published before the registrations got none
C10_Witness ==
    /\ subscribers["a"] = <<"ok">>
    /\ subscribers[WILDCARD] = <<"ok">>
    /\ \E e \in EventIds :
        /\ pub[e].event_type = "a"
        /\ Len(att[e]) = 2
        /\ att[e][1].h = "ok" /\ att[e][2].h = "ok"
        /\ att[e][1].invoked = 1 /\ att[e][2].invoked = 1

\* the events of the snapshot that replay does not skip, oldest first
ReplayMatching ==
    SelectSeq(replay_call.snapshot,
              LAMBDA ev : ReplayMatches(ev, replay_call.event_type, replay_call.since))

ReplayIds(evs) == [i \in 1..Len(evs) |-> evs[i].event_id]

\* C11 as claimed: when replay has returned, the handler was invoked, oldest to
\* newest, on exactly the matching events of history, and for every limit that is
\* given on the first min(limit, number of matches) of them only.
C11_ReplayStopsAtLimit ==
    replay_call.st = "returned" =>
        replay_call.invoked =
            ReplayIds(IF replay_call.limit = None THEN ReplayMatching
                      ELSE SubSeq(ReplayMatching, 1,
                                  Min(replay_call.limit, Len(ReplayMatching))))

\* C11 for the limits that Python takes as true: a limit of 1 or more
C11_ReplayStopsAtPositiveLimit ==
    replay_call.st = "returned" /\ replay_call.limit # 0 =>
        replay_call.invoked =
            ReplayIds(IF replay_call.limit = None THEN ReplayMatching
                      ELSE SubSeq(ReplayMatching, 1,
                                  Min(replay_call.limit, Len(ReplayMatching))))

\* replay with limit = 0 has returned after invoking the handler on two events
C11_Witness ==
    /\ replay_call.st = "returned"
    /\ replay_call.limit = 0
    /\ Len(replay_call.invoked) = 2

\* C12: a publish call for an event with no matching handler appends the event to
\* history and adds 1 to published, and changes nothing else: the other counters,
\* the last publish latency/time, the dispatch queue, the slots and the workers
\* stay as they were.
C12_NoSubscriberPublish ==
    [][(calls' = calls + 1 /\ MatchingHandlers(pub'[calls'].event_type) = <<>>) =>
        /\ history' = DequeAppend(history, Event(calls', pub'[calls'].event_type),
                                  max_history)
        /\ published' = published + 1
        /\ pub'[calls'].st = "returned"
        /\ UNCHANGED <<dropped, errors, timeouts, last_publish, queue, slots, workers,
                       subscribers>>
      ]_vars

\* an event of type "*" was published while handlers were registered under "a"
\* only: it got no attempt, and the latency is still that of the event before
C12_Witness ==
    /\ calls = 2
    /\ subscribers["a"] # <<>>
    /\ pub[2].event_type = WILDCARD
    /\ pub[2].st = "returned"
    /\ att[2] = <<>>
    /\ last_publish = 1
    /\ Len(history) = 2

\* the tasks created by _ensure_task whose done callback has not run yet
LiveRuns == {r \in RunIds : runs[r].phase # "free"}
LiveRunsOf(n) == {r \in LiveRuns : runs[r].name = n}

RECURSIVE PowerOf(_)
PowerOf(rs) ==
    IF rs = {} THEN 0
    ELSE LET r == CHOOSE x \in rs : TRUE
         IN  runs[r].power_cost + PowerOf(rs \ {r})

\* C13: in every reachable state of the scheduler power_used is at most
\* power_budget (and at least 0): no admission, by schedule or by the restart path,
\* takes it over the budget.
C13_PowerWithinBudget == power_used >= 0 /\ power_used <= power_budget

\* a task holds the whole budget and runs, and a task scheduled after it, whose
\* cost does not fit any more, is pending
C13_Witness ==
    /\ power_used = power_budget
    /\ \E n \in Names : task_state[n].status = "running" /\ LiveRunsOf(n) # {}
    /\ \E n \in Names : task_state[n].status = "pending" /\ LiveRunsOf(n) = {}

\* C14 as claimed: in every reachable state power_used is the sum of power_cost
\* over the runs that were admitted and have not completed.
C14_PowerUsedIsHeldPower == power_used = PowerOf(LiveRuns)

\* shutdown has returned and reset power_used to 0 while a run that was admitted
\* during the shutdown is executing
C14_Witness ==
    /\ shutdown_call.st = "idle"
    /\ shutdown_call.calls = 1
    /\ power_used = 0
    /\ \E r \in RunIds : runs[r].phase = "executing" /\ runs[r].power_cost > 0

\* without a shutdown call the equality of C14 holds
C14_PowerUsedIsHeldPowerBeforeShutdown ==
    shutdown_call.calls = 0 => power_used = PowerOf(LiveRuns)

\* the spec a name was scheduled with, when it was scheduled once
SpecOf(n) == task_specs[CHOOSE i \in 1..Len(task_specs) : task_specs[i].name = n]

\* the task has failed and no run of it is left
Settled(n) == task_state[n].status = "failed" /\ LiveRunsOf(n) = {}

\* the number of restarts the spec of n allows
Allowed(n) == IF SpecOf(n).restart THEN SpecOf(n).max_restarts ELSE 0

\* C15 as claimed: a task whose run action always raises, scheduled with restart = true and
\* max_restarts = k, never has restarts > k nor more than k + 1 executions of its
\* run action; once admitted it settles (unless shutdown is called) with status
\* failed, restarts = k and k + 1 executions, and stays so; with restart = false
\* the same with 0 restarts and 1 execution.
C15_RestartBound ==
    /\ [](Scheduled("raiser") =>
            /\ task_state["raiser"].restarts <= Allowed("raiser")
            /\ executions["raiser"] <= Allowed("raiser") + 1
            /\ Settled("raiser") =>
                  /\ task_state["raiser"].restarts = Allowed("raiser")
                  /\ executions["raiser"] = Allowed("raiser") + 1)
    /\ [][Settled("raiser") /\ shutdown_call'.st = shutdown_call.st =>
            /\ task_state'["raiser"] = task_state["raiser"]
            /\ executions'["raiser"] = executions["raiser"]
            /\ \A r \in RunIds : runs'[r].name = "raiser" => runs'[r].phase = "free"
         ]_vars
    /\ (task_state["raiser"].status = "running" /\ shutdown_call.calls = 0)
          ~> (Settled("raiser") \/ shutdown_call.calls > 0)

\* the raiser, scheduled with restart = true and max_restarts = 2, has settled after
\* three executions
C15_Settled ==
    /\ Scheduled("raiser")
    /\ SpecOf("raiser").restart /\ SpecOf("raiser").max_restarts = 2
    /\ Settled("raiser")
    /\ task_state["raiser"].restarts = 2
    /\ executions["raiser"] = 3
    /\ shutdown_call.calls = 0

\* the raiser, scheduled with restart = true and max_restarts = 1, has run once and
\* no run of it is left: it is pending, not failed, and is not run a second time
C15_Witness ==
    /\ Scheduled("raiser")
    /\ SpecOf("raiser").restart /\ SpecOf("raiser").max_restarts = 1
    /\ ~Settled("raiser")
    /\ LiveRunsOf("raiser") = {}
    /\ task_state["raiser"].status = "pending"
    /\ executions["raiser"] = 1
    /\ shutdown_call.calls = 0

\* C16: the done callback of a run that ended by cancellation or by a normal
\* return launches no run and leaves restarts as it is; after a cancellation the
\* status is cancelled.
C16_OnlyErrorsRestart ==
    [][\A r \in RunIds :
          (/\ runs[r].phase = "ended"
           /\ runs[r].outcome \in {"cancelled", "returned"}
           /\ runs'[r].phase # "ended") =>
              LET n == runs[r].name
              IN  /\ runs' = [runs EXCEPT ![r] = NoRun]
                  /\ executions' = executions
                  /\ task_state'[n].restarts = task_state[n].restarts
                  /\ (runs[r].outcome = "cancelled" /\ task_state[n].status # "absent")
                        => task_state'[n].status = "cancelled"
                  /\ runs[r].outcome = "returned"
                        => task_state'[n] = task_state[n]
      ]_vars

\* of two tasks scheduled with restart = true, one has returned and one has been
\* cancelled by the shutdown that is still waiting; neither has been run again
C16_Witness ==
    /\ shutdown_call.st = "waiting"
    /\ Scheduled("returner") /\ SpecOf("returner").restart
    /\ SpecOf("returner").max_restarts > 0
    /\ Scheduled("looper") /\ SpecOf("looper").restart
    /\ SpecOf("looper").max_restarts > 0
    /\ LiveRuns = {}
    /\ executions["returner"] = 1 /\ executions["looper"] = 1
    /\ task_state["looper"].status = "cancelled"
    /\ task_state["looper"].restarts = 0
    /\ task_state["returner"].restarts = 0

\* the step is a schedule call for the name n
ScheduledNow(n) ==
    /\ Len(task_specs') = Len(task_specs) + 1
    /\ Cardinality({i \in 1..Len(task_specs') : task_specs'[i].name = n}) =
          Cardinality({i \in 1..Len(task_specs) : task_specs[i].name = n}) + 1

\* the step is the done callback of a run of n
DoneCallbackOf(n) ==
    \E r \in RunIds : runs[r].name = n /\ runs[r].phase = "ended" /\
                       runs'[r].phase # "ended"

\* the step is the end of shutdown, which clears the table
Cleared ==
    /\ shutdown_call.st = "waiting"
    /\ shutdown_call'.st = "idle"
    /\ \A n \in Names : task_state'[n].status = "absent"

\* C17: a pending task stays pending, whatever budget other tasks release, until
\* schedule is called for its name or the done callback of a run of its own runs
\* (or shutdown clears the table).
C17_PendingStaysPending ==
    [][\A n \in Names :
          (task_state[n].status = "pending" /\ task_state'[n] # task_state[n]) =>
              ScheduledNow(n) \/ DoneCallbackOf(n) \/ Cleared
      ]_vars

\* the task that held the budget is done, the whole budget is free, and the task
\* left pending for lack of it is still pending
C17_Witness ==
    /\ shutdown_call.calls = 0
    /\ power_used = 0
    /\ LiveRuns = {}
    /\ \E n \in Names : executions[n] > 0
    /\ \E n \in Names : task_state[n].status = "pending" /\ executions[n] = 0

TimesScheduled(n) == Cardinality({i \in 1..Len(task_specs) : task_specs[i].name = n})

\* C18 as claimed: among the specs scheduled (each name once, before any shutdown),
\* a spec with a lower priority number is never pending for lack of budget while a
\* spec with a higher priority number runs on budget that would admit it.
C18_AdmissionFollowsPriority ==
    shutdown_call.calls = 0 =>
        \A i, j \in 1..Len(task_specs) :
            LET p == task_specs[i]
                q == task_specs[j]
            IN  ~ /\ TimesScheduled(p.name) = 1
                  /\ TimesScheduled(q.name) = 1
                  /\ p.priority < q.priority
                  /\ task_state[p.name].status = "pending"
                  /\ task_state[q.name].status = "running"
                  /\ LiveRunsOf(q.name) # {}
                  /\ power_used + p.power_cost > power_budget
                  /\ power_used - q.power_cost + p.power_cost <= power_budget

\* the spec of priority 1 is pending and first in _task_specs, the spec of
\* priority 2, scheduled before it, runs and holds the whole budget
C18_Witness ==
    /\ shutdown_call.calls = 0
    /\ Len(task_specs) = 2
    /\ task_specs[1].priority = 1 /\ task_specs[2].priority = 2
    /\ task_specs[1].name # task_specs[2].name
    /\ task_state[task_specs[1].name].status = "pending"
    /\ task_state[task_specs[2].name].status = "running"
    /\ runs[1].name = task_specs[2].name /\ runs[1].phase = "executing"
    /\ power_used = power_budget

StatusSteps ==
    {<<"absent", "pending">>, <<"absent", "running">>, <<"pending", "running">>,
     <<"running", "failed">>, <<"failed", "running">>, <<"running", "cancelled">>}

\* C19 as claimed: with each name scheduled once, the status of a task is always pending,
\* running, failed or cancelled (or the name has no entry), an entry is created as
\* pending and may be admitted in the same call, and the status changes only by
\* pending -> running, running -> failed, failed -> running and running ->
\* cancelled, until shutdown clears the table.
C19_StatusTransitions ==
    /\ [](\A n \in Names :
            task_state[n].status \in {"absent", "pending", "running", "failed",
                                      "cancelled"})
    /\ [][\A n \in Names :
             task_state'[n].status # task_state[n].status =>
                 \/ <<task_state[n].status, task_state'[n].status>> \in StatusSteps
                 \/ Cleared
         ]_vars

\* one task has failed for good, one has been cancelled by the shutdown in progress
C19_FailedAndCancelled ==
    /\ shutdown_call.st = "waiting"
    /\ \E n \in Names : task_state[n].status = "failed" /\ LiveRunsOf(n) = {}
    /\ \E n \in Names : task_state[n].status = "cancelled"

\* a task that has run and failed is pending: its status went from running to failed
\* and on to pending in its done callback
C19_Witness ==
    \E n \in Names :
        /\ task_state[n].status = "pending"
        /\ task_state[n].last_error = "error"
        /\ executions[n] >= 1

\* C20 as claimed: when shutdown returns, no task launched by the scheduler is
\* still executing, the task table is empty and power_used is 0.
C20_ShutdownLeavesNothingRunning ==
    [][(shutdown_call.st = "waiting" /\ shutdown_call'.st = "idle") =>
          /\ \A r \in RunIds : runs'[r].phase = "free"
          /\ \A n \in Names : task_state'[n].status = "absent"
          /\ power_used' = 0
      ]_vars

\* shutdown has returned and the run action that raised while it was being
\* cancelled is executing again
C20_Witness ==
    /\ shutdown_call.st = "idle"
    /\ shutdown_call.calls = 1
    /\ \A n \in Names : task_state[n].status = "absent"
    /\ \E r \in RunIds : runs[r].name = "stubborn" /\ runs[r].phase = "executing"
    /\ executions["stubborn"] = 2

\* health_snapshot() is empty
HealthEmpty == \A n \in Names : task_state[n].status = "absent"

\* _tasks and _task_state are empty and no power is held: the scheduler as it is
\* constructed, or as a shutdown() call leaves it
NothingRunning ==
    /\ \A r \in RunIds : ~runs[r].listed
    /\ HealthEmpty
    /\ power_used = 0

\* C21: shutdown() called with nothing running, on a fresh Scheduler or right after
\* another shutdown(), has nothing to wait for, returns with health_snapshot empty
\* and power_used = 0, and changes nothing: no spec, state entry, power or task is
\* touched by the call or by its return.
C21_ShutdownIdempotent ==
    /\ [](NothingRunning /\ shutdown_call.st = "waiting" => shutdown_call.awaited = {})
    /\ [][NothingRunning /\ shutdown_call' # shutdown_call
          => /\ UNCHANGED <<task_specs, task_state, power_used, runs, executions>>
             /\ shutdown_call'.st = "idle" => HealthEmpty' /\ power_used' = 0]_vars

\* a second shutdown() has returned, after tasks were scheduled and run
C21_Witness ==
    /\ shutdown_call.calls = 2
    /\ shutdown_call.st = "idle"
    /\ NothingRunning
    /\ \E n \in Names : executions[n] > 0

\* the done callback of the failed task in slot r runs in this step
Fails(r) ==
    /\ runs[r].phase = "ended"
    /\ runs[r].outcome = "raised"
    /\ runs'[r] # [runs[r] EXCEPT !.listed = FALSE]
    /\ runs'[r] # runs[r]

\* C22: when a task fails, its done callback changes the state entry of its own name
\* and the power it held, and nothing else: the entries of the other names keep
\* their status, last_error and restarts, no other task is cancelled or touched,
\* the list of specs is the same, and the power counter moves by the cost of the
\* task alone (released, and taken again by a restart).
C22_FailureIsContained ==
    [][\A r \in RunIds : Fails(r) =>
          /\ \A n \in Names \ {runs[r].name} : task_state'[n] = task_state[n]
          /\ \A q \in RunIds \ {r} : runs'[q] = runs[q]
          /\ runs'[r].phase \in {"free", "starting"}
          /\ runs'[r].phase = "starting" => runs'[r].name = runs[r].name
          /\ \/ power_used' = power_used
             \/ power_used' - Max(power_used - runs[r].power_cost, 0)
                   \in {0, runs[r].power_cost}
          /\ UNCHANGED <<task_specs, executions>>
          /\ shutdown_call'.st = shutdown_call.st]_vars

\* a task has failed for good while another task is running
C22_Witness ==
    /\ task_state["raiser"].status = "failed"
    /\ task_state["raiser"].restarts = 1
    /\ task_state["looper"].status = "running"
    /\ \E r \in RunIds : runs[r].name = "looper" /\ runs[r].phase = "executing"
                          /\ ~runs[r].must_cancel

(* ----------------------- claims: PrioritizedQueue ---------------------- *)
\* an enqueue call is made in this step
Enqueues == metrics'.enqueued = metrics.enqueued + 1

\* the item of the enqueue call made in this step
Incoming == IF Len(high') > 0 /\ high'[Len(high')].id = metrics'.enqueued
            THEN high'[Len(high')]
            ELSE IF Len(normal') > 0 /\ normal'[Len(normal')].id = metrics'.enqueued
            THEN normal'[Len(normal')]
            ELSE Item(0, FALSE)

ItemsOf(seq) == {seq[i] : i \in 1..Len(seq)}
Queued == ItemsOf(high) \cup ItemsOf(normal)
Full == Size(high, normal) >= maxsize

\* C23: after every enqueue the two tiers hold at most maxsize items between them,
\* and max_depth never exceeds maxsize.
C23_SizeWithinMaxsize ==
    /\ Size(high, normal) <= maxsize
    /\ metrics.max_depth <= maxsize

\* the queue is full with items of both tiers after an eviction
C23_Witness ==
    /\ maxsize = 2
    /\ Len(high) = 1
    /\ Len(normal) = 1
    /\ metrics.dropped = 2
    /\ metrics.max_depth = 2

\* C24: an enqueue on a full queue evicts exactly one queued item and adds one to
\* dropped: the oldest normal item when there is one, else the oldest high item,
\* whatever the priority of the incoming item; an enqueue on a queue that is not
\* full evicts nothing and leaves dropped alone.
C24_EvictionOrder ==
    [][Enqueues =>
          LET gone == Queued \ (ItemsOf(high') \cup ItemsOf(normal'))
          IN  IF Full
              THEN /\ gone = {IF normal # <<>> THEN Head(normal) ELSE Head(high)}
                   /\ evicted' = Append(evicted, IF normal # <<>> THEN Head(normal)
                                                  ELSE Head(high))
                   /\ metrics'.dropped = metrics.dropped + 1
              ELSE /\ gone = {}
                   /\ evicted' = evicted
                   /\ metrics'.dropped = metrics.dropped]_vars

\* a normal item has come to a queue full of high items: the oldest high item is
\* evicted for it
C24_Witness ==
    /\ maxsize = 2
    /\ evicted = <<Item(1, TRUE)>>
    /\ high = <<Item(2, TRUE)>>
    /\ normal = <<Item(3, FALSE)>>
    /\ metrics.dropped = 1

\* C25: enqueue never turns the incoming item away: it returns True, the item is
\* the newest of its tier when the call returns, and it is not the item its own
\* call evicts.
C25_EnqueueNeverRejects ==
    [][Enqueues =>
          /\ returned' = "True"
          /\ LET tier == IF Incoming.is_high THEN high' ELSE normal'
             IN  /\ tier # <<>>
                 /\ tier[Len(tier)].id = metrics'.enqueued
          /\ \A i \in 1..Len(evicted') : evicted'[i].id # metrics'.enqueued]_vars

\* an item was enqueued on a full queue of capacity one, and is queued
C25_Witness ==
    /\ maxsize = 1
    /\ returned = "True"
    /\ evicted = <<Item(1, FALSE)>>
    /\ normal = <<Item(2, FALSE)>>
    /\ high = <<>>

\* the loop of run() takes a batch in this step
Drains ==
    /\ run_loop.pc \in {"off", "failed", "sleep"}
    /\ run_loop' # run_loop

HighOf(seq) == SelectSeq(seq, LAMBDA x : x.is_high)
NormalOf(seq) == SelectSeq(seq, LAMBDA x : ~x.is_high)

\* C26: a batch has at most max_batch items; with h high items queued it holds
\* min(h, max_batch) high items, and at most max_batch - min(h, max_batch) normal
\* items.
C26_BatchBound ==
    [][Drains =>
          LET k == Min(Len(high), max_batch)
          IN  /\ Len(run_loop'.batch) <= max_batch
              /\ Len(HighOf(run_loop'.batch)) = k
              /\ Len(NormalOf(run_loop'.batch)) <= max_batch - k]_vars

\* a full batch of both tiers has been taken, and a normal item had to stay behind
C26_Witness ==
    /\ max_batch = 2
    /\ Len(run_loop.batch) = 2
    /\ Len(HighOf(run_loop.batch)) = 1
    /\ run_loop.pc = "handler"
    /\ run_loop.todo = run_loop.batch
    /\ normal # <<>>

Increasing(seq) == \A i, j \in 1..Len(seq) : i < j => seq[i].id < seq[j].id

\* the handler has never raised
NeverRaised == run_loop.pc # "failed" /\ run_loop.calls <= 1

\* the items the handler has been invoked on in the batch at hand
Started == SubSeq(run_loop.batch, 1, Len(run_loop.batch) - Len(run_loop.todo) + 1)

\* C27: within a batch the handler is invoked on one item after the other, the high
\* items in the order they were enqueued and then the normal items in the order
\* they were enqueued; across batches the items of one tier are handled in the
\* order they were enqueued; and, as long as the handler returns, no item that
\* survived eviction is passed over by a later item of its tier.
C27_HandlingOrder ==
    /\ run_loop.batch = HighOf(run_loop.batch) \o NormalOf(run_loop.batch)
    /\ Increasing(HighOf(run_loop.batch))
    /\ Increasing(NormalOf(run_loop.batch))
    /\ run_loop.pc = "handler" =>
          /\ Len(handled) >= Len(Started)
          /\ SubSeq(handled, Len(handled) - Len(Started) + 1, Len(handled)) = Started
    /\ Increasing(HighOf(handled))
    /\ Increasing(NormalOf(handled))
    /\ NeverRaised =>
          \A x \in Queued \cup ItemsOf(run_loop.todo) : \A i \in 1..Len(handled) :
              x = handled[i] \/ x.is_high # handled[i].is_high \/ handled[i].id < x.id

\* the example of the specification: maxsize 3, h1, n1, n2 queued, n3 evicts n1, and
\* a batch of max_batch 4 handles h1, n2, n3
C27_Witness ==
    /\ maxsize = 3
    /\ max_batch = 4
    /\ evicted = <<Item(2, FALSE)>>
    /\ handled = <<Item(1, TRUE), Item(3, FALSE), Item(4, FALSE)>>
    /\ run_loop.batch = handled
    /\ metrics.processed = 3

\* C28: between two tick sleeps run() invokes the handler at most max_batch times,
\* and it sleeps after every batch, empty or not, before it takes the next: no item
\* leaves the tiers for a batch while a batch is being handled, the loop sleeps
\* after the last item of a batch, and it sleeps when it finds the tiers empty.
C28_TickBetweenBatches ==
    /\ [](run_loop.since_sleep <= max_batch)
    /\ [][/\ run_loop.pc = "handler" =>
               /\ run_loop'.batch = run_loop.batch
               /\ Enqueues \/ UNCHANGED <<high, normal>>
          /\ run_loop.pc = "handler" /\ run_loop'.todo # run_loop.todo =>
               IF Len(run_loop.todo) = 1 THEN run_loop'.pc = "sleep"
               ELSE run_loop'.pc = "handler" /\ run_loop'.todo = Tail(run_loop.todo)
          /\ Drains /\ Size(high, normal) = 0 => run_loop'.pc = "sleep"]_vars

\* a full batch has been handled and the loop sleeps, with items waiting
C28_Witness ==
    /\ max_batch = 2
    /\ run_loop.pc = "sleep"
    /\ run_loop.since_sleep = 2
    /\ Len(run_loop.batch) = 2
    /\ metrics.processed = 2
    /\ Size(high, normal) > 0

\* C29 as claimed: a fault raised by the handler does not escape the queue: run()
\* never ends with it, and every item of a batch that was taken is handled or about
\* to be.
C29_HandlerFaultContained ==
    /\ run_loop.pc # "failed"
    /\ run_loop.pc \notin {"handler"} => run_loop.todo = <<>>

\* the handler has raised on the first item of a batch of two: run() has ended, and
\* the second item was never handed to the handler
C29_Witness ==
    /\ run_loop.pc = "failed"
    /\ Len(run_loop.batch) = 2
    /\ Len(run_loop.todo) = 2
    /\ handled = <<run_loop.batch[1]>>
    /\ Size(high, normal) = 0

(* --------------------------- claims: delivery -------------------------- *)
\* a handler that neither returns nor ends when it is cancelled is subscribed
Unbounded == \E k \in Keys : \E i \in 1..Len(subscribers[k]) : subscribers[k][i] = "zombie"

\* attempt i of event e has been made, and its handler was invoked or it was dropped
DeliveredOrDropped(e, i) ==
    /\ i <= Len(att[e])
    /\ att[e][i].invoked = 1 \/ att[e][i].drops = 1

\* C30: with workers that are scheduled fairly and handlers that return or end at
\* their timeout, every attempt to deliver a published event to a subscribed handler
\* is in the end either dropped for backpressure or delivered: its handler is
\* invoked on the event.
C30_EventuallyDelivered ==
    \A e \in 1..MaxEvents : \A i \in 1..MaxSubs :
        (i <= Len(att[e])) ~> (DeliveredOrDropped(e, i) \/ Unbounded)

\* one worker has delivered two events in turn to a handler that takes its time:
\* the second waited in the queue while the first was handled
C30_Witness ==
    /\ worker_count = 1
    /\ subscribers["a"] = <<"slow">>
    /\ dropped = 0
    /\ \A e \in 1..2 : Len(att[e]) = 1 /\ att[e][1].invoked = 1
    /\ att[1][1].st = "finished"

(* ------------------------ claims: slots and buffers -------------------- *)
\* C32: the slot is released exactly once per acquisition, and never without one:
\* the free slots are max_in_flight less the invocations in progress at every
\* moment, so never more than max_in_flight and all of them when no invocation is
\* in progress; a step frees at most one slot, that of an invocation which ends in
\* that step, by return, by timeout or by an Exception.
C32_SlotReleasedOnce ==
    /\ [](slots = max_in_flight - Cardinality(Executing))
    /\ [](slots <= max_in_flight)
    /\ [][slots' > slots =>
            /\ slots' = slots + 1
            /\ \E w \in WorkerIds :
                  /\ InBody(w)
                  /\ workers'[w].pc = "idle"
                  /\ att'[workers[w].job[1]][workers[w].job[2]].res
                        \in {"completed", "cancelled", "raised"}]_vars

\* a handler has raised, another was cancelled at its timeout, an attempt was
\* dropped for want of a slot, and every slot is free again
C32_Witness ==
    /\ errors >= 1
    /\ timeouts >= 1
    /\ dropped >= 1
    /\ Executing = {}
    /\ slots = max_in_flight

\* the handlers of the attempts of event e, in order
HandlersOf(a) == [i \in 1..Len(a) |-> a[i].h]

\* C39: publish never modifies the registry and works on a snapshot of it: a step
\* that changes the registry is a subscribe call, which appends one handler to one
\* list and publishes nothing; a publish call leaves every list as it is; and the
\* attempts of an event are for the handlers registered when it was published, so
\* that a handler subscribed later gets none for it.
C39_PublishLeavesRegistry ==
    [][/\ calls' # calls => subscribers' = subscribers
       /\ subscribers' # subscribers =>
             \E k \in Keys : \E h \in HandlerIds :
                 subscribers' = [subscribers EXCEPT ![k] = Append(@, h)]
       /\ \A e \in 1..calls : HandlersOf(att'[e]) = HandlersOf(att[e])
       /\ calls' # calls =>
             HandlersOf(att'[calls']) = MatchingHandlers(pub'[calls'].event_type)]_vars

\* an event of type "a" was delivered to the one handler registered by then; a
\* wildcard handler subscribed afterwards got no attempt for it, got one for the
\* next event, and is in the wildcard list only
C39_Witness ==
    /\ subscribers["a"] = <<"ok">>
    /\ subscribers[WILDCARD] = <<"ok2">>
    /\ calls = 2
    /\ pub[1].event_type = "a" /\ pub[2].event_type = "a"
    /\ HandlersOf(att[1]) = <<"ok">>
    /\ HandlersOf(att[2]) = <<"ok", "ok2">>
    /\ att[1][1].st = "finished"

(* ----------------------- claims: supervised runs ----------------------- *)
\* C35 as claimed: whenever the status of a name is running, a run of that task is
\* in progress: a task was created for it and its done callback has not run yet.
C35_RunningMeansInProgress ==
    \A n \in Names : task_state[n].status = "running" => LiveRunsOf(n) # {}

\* the run action of "returner" has returned and its done callback has run; the
\* status is still running, and the second schedule call for the name has launched
\* nothing
C35_Witness ==
    /\ shutdown_call.calls = 0
    /\ task_state["returner"].status = "running"
    /\ LiveRunsOf("returner") = {}
    /\ TimesScheduled("returner") = 2
    /\ executions["returner"] = 1
    /\ power_used = 0

\* the runs of the name n whose run action is executing
ExecutingRunsOf(n) == {r \in RunIds : runs[r].name = n /\ runs[r].phase = "executing"}

\* C36 as claimed: at most one run of a name is executing at any time, and a
\* schedule call for a name whose status is running launches nothing and leaves
\* power_used and the state of the task as they are.
C36_OneRunPerName ==
    /\ [](\A n \in Names : Cardinality(ExecutingRunsOf(n)) <= 1)
    /\ [][\A n \in Names :
             ScheduledNow(n) /\ task_state[n].status = "running" =>
                 UNCHANGED <<task_state, power_used, runs>>]_vars

\* two runs of "stubborn" are executing: the one that was restarted while shutdown
\* waited, and the one that the schedule call after the shutdown has launched
C36_Witness ==
    /\ shutdown_call.calls = 1
    /\ shutdown_call.st = "idle"
    /\ Cardinality(ExecutingRunsOf("stubborn")) = 2
    /\ task_state["stubborn"].status = "running"

(* ------------------ claims: accounting and starvation ------------------ *)
\* the items of the batch at hand that the handler has not dealt with yet; there is
\* no batch at hand when run() is not in the middle of one
Unhandled == IF run_loop.pc = "handler" THEN Len(run_loop.todo) ELSE 0

\* C38 as claimed: every item is accounted for, whatever the handler does: enqueued
\* is processed + dropped + the items queued + the items of the current batch not
\* yet handled, and processed is processed_high + processed_normal.
C38_EveryItemCounted ==
    /\ metrics.enqueued = metrics.processed + metrics.dropped + Size(high, normal)
                             + Unhandled
    /\ metrics.processed = metrics.processed_high + metrics.processed_normal

\* the handler raised on the first of two items; run() was called again and found
\* nothing: two items were enqueued, none is queued, processed or dropped
C38_Witness ==
    /\ metrics.enqueued = 2
    /\ metrics.processed = 0
    /\ metrics.dropped = 0
    /\ Size(high, normal) = 0
    /\ run_loop.calls = 2
    /\ run_loop.pc = "sleep"
    /\ Len(handled) = 1

\* the normal items among handled[i] for from < i < to
NormalStarts(from, to) ==
    Cardinality({i \in (from + 1)..(to - 1) : ~handled[i].is_high})

\* the place of item x in handled, or where it would come next
PlaceOf(x) ==
    IF \E i \in 1..Len(handled) : handled[i] = x
    THEN CHOOSE i \in 1..Len(handled) : handled[i] = x
    ELSE Len(handled) + 1

\* the handler is started on the normal item y in this step
StartsNormal(y) == ~y.is_high /\ handled' = Append(handled, y)

\* C40: a high item enqueued while a batch is handled is not starved by normal
\* work: between its enqueue and its own handling the handler is started on at most
\* max_batch - 1 normal items, and while a high item waits in its tier the handler
\* is started on a normal item only from the batch that was already in progress,
\* never on one taken from the tiers after the enqueue of the high item.
C40_HighNotStarved ==
    /\ [](\A x \in ItemsOf(high) \cup ItemsOf(HighOf(run_loop.todo))
                    \cup ItemsOf(HighOf(handled)) :
             NormalStarts(enqueued_at[x.id], PlaceOf(x)) <= max_batch - 1)
    /\ [][\A y \in ItemsOf(normal) \cup ItemsOf(run_loop.todo) :
             StartsNormal(y) /\ high # <<>> =>
                 /\ run_loop.pc = "handler"
                 /\ y \in ItemsOf(Tail(run_loop.todo))]_vars

\* a high item came while the first of three normal items was handled; the other
\* two were handled before it, and a normal item enqueued before it waits behind it
C40_Witness ==
    /\ max_batch = 3
    /\ \E i \in 1..Len(handled) :
          /\ handled[i].is_high
          /\ enqueued_at[handled[i].id] = 1
          /\ i = 4
          /\ NormalStarts(1, i) = 2
          /\ \E j \in 1..Len(run_loop.todo) :
                /\ ~run_loop.todo[j].is_high
                /\ run_loop.todo[j].id < handled[i].id

(* ------------------------- claims: restarts ---------------------------- *)
\* the done callback of the failed task in slot r runs in this step and the restart
\* test passes
Restarts(r) ==
    /\ Fails(r)
    /\ task_state[runs[r].name].status # "absent"
    /\ MayRestart(runs[r], task_state[runs[r].name])

\* C37 as claimed: a restart is never deferred by the power budget: the done
\* callback of a task that failed with restart = true and restarts < max_restarts
\* leaves the task running, with a new run launched and power_used as it was; the
\* task is never pending after its failure.
C37_RestartNeverDeferred ==
    [][\A r \in RunIds : Restarts(r) =>
          /\ task_state'[runs[r].name].status = "running"
          /\ runs'[r].phase = "starting"
          /\ power_used' = power_used]_vars

\* the raiser held 3 units of a budget of 14 that was used up; its done callback
\* released 14 - 3, which is rounded to 12, and 12 + 3 is rounded to 16: the raiser
\* is pending after its first failure
C37_Witness ==
    /\ power_budget = LargeBudget
    /\ shutdown_call.calls = 0
    /\ task_state["raiser"].status = "pending"
    /\ task_state["raiser"].restarts = 1
    /\ executions["raiser"] = 1
    /\ power_used = 12
    /\ Cardinality({n \in Names : task_state[n].status = "running"}) = 2

(* ----------------------- claims: bounded buffers ----------------------- *)
\* the worker tasks that _ensure_workers has created
WorkerTasks == {w \in WorkerIds : workers[w].pc # "off"}

\* a publish call that found a handler has been made
PublishedToHandler == \E e \in EventIds : pub[e].st # "none" /\ att[e] # <<>>

\* C34 as claimed: the work buffered by the bus is bounded: the attempts waiting in
\* the dispatch queue are at most queue_maxsize, and there is no dispatch worker
\* before the first publish call that has a handler and exactly worker_count of them
\* from then on, publish calls overlapping or not.
C34_BoundedBuffers ==
    /\ Len(queue) <= queue_maxsize
    /\ Cardinality(WorkerTasks) = IF PublishedToHandler THEN worker_count ELSE 0

\* a bus made with queue_maxsize = 0: both attempts of an event wait in the queue
\* while the worker is in the handler of an earlier event
C34_Witness ==
    /\ queue_maxsize = 0
    /\ Len(queue) = 2
    /\ Cardinality(WorkerTasks) = worker_count
    /\ \E w \in WorkerIds : InBody(w)
    /\ dropped = 0

\* the same with queue_maxsize >= 1
C34_BoundedWhenPositive == queue_maxsize >= 1 => C34_BoundedBuffers

(* --------------------------- claims: heartbeat ------------------------- *)
\* the tasks of name n whose heartbeat task is active
UpdatersOf(n) == {r \in RunIds : runs[r].name = n /\ runs[r].heartbeat_task # None}

\* the run action of the task in slot r is started in this step
Starts(r) == runs[r].phase = "starting" /\ runs'[r].phase = "executing"

LastUserInput(j) ==
    LET before == {i \in 1..(j - 1) : emitted[i].user}
    IN  IF before = {} THEN 0 ELSE CHOOSE i \in before : \A k \in before : k <= i

Conversational(i) == i > 0 /\ emitted[i].intent \in {"greet", "converse"}

\* C31: after a user input classified greet or converse was processed at time t,
\* and until the next user input, a telemetry event (context.tagged or
\* emotion.detected, not from the user) processed before t + conversation_duration
\* is answered with the intent of that input, and one processed at
\* t + conversation_duration or later with idle, after which conversation mode is
\* off; as long as conversation mode is on its expiry is t + conversation_duration,
\* whatever telemetry was processed since.
C31_ConversationMode ==
    /\ \A j \in 1..Len(emitted) :
          LET i == LastUserInput(j)
          IN  (emitted[j].telemetry /\ Conversational(i)) =>
                 emitted[j].intent =
                    IF emitted[j].at < emitted[i].at + conversation_duration
                    THEN emitted[i].intent ELSE "idle"
    /\ LET i == LastUserInput(Len(emitted) + 1)
           since == (i + 1)..Len(emitted)
       IN  Conversational(i) =>
              /\ conversation_active =>
                    conversation_expires_at = emitted[i].at + conversation_duration
              /\ (\E j \in since : /\ emitted[j].telemetry
                                   /\ emitted[j].at >= emitted[i].at + conversation_duration)
                    => ~conversation_active /\ current_intent = "idle"
              /\ (\A j \in since : emitted[j].at < emitted[i].at + conversation_duration)
                    => conversation_active /\ current_intent = emitted[i].intent

\* "hi" was processed at time 0, a context.tagged event at time 1 was answered with
\* greet, and an emotion.detected event at time 2, when the conversation had
\* expired, with idle
C31_Witness ==
    /\ Len(emitted) = 3
    /\ emitted[1].user /\ emitted[1].intent = "greet" /\ emitted[1].at = 0
    /\ emitted[2].telemetry /\ emitted[2].intent = "greet" /\ emitted[2].at = 1
    /\ emitted[3].telemetry /\ emitted[3].intent = "idle"
    /\ emitted[3].at = conversation_duration
    /\ last_emotion = "happy"
    /\ ~conversation_active
    /\ calls = 3

====
